---- MODULE Spec2Model ----
(***************************************************************************)
(* A model of the eco_bot repository: the user bot (bot.py), the admin bot *)
(* (admin_bot.py) and the SQLite store they share (database.py).           *)
(*                                                                         *)
(* The store is modelled table by table.  The user bot's handlers are      *)
(* modelled one action per inbound update, the dispatch over the handlers  *)
(* registered in main() included; the in-memory state of the library's     *)
(* conversation handlers and context.user_data is part of the state and is *)
(* lost by Restart.  Each handler of the admin bot is one action.          *)
(*                                                                         *)
(* Texts are sequences of characters.  The bookkeeping keys the handlers   *)
(* write into the persisted context (timestamps, attempt counters, echoes  *)
(* of the invalid input, confirmation marks) are never read back by a      *)
(* handler except to write them again: the model keeps one key,            *)
(* "bookkeeping", for all of them.  The payload of an inbox entry is kept  *)
(* for the entries the program reads back (potential reports); the other   *)
(* entries are log records and keep their type only.                       *)
(***************************************************************************)
EXTENDS Integers, Sequences, FiniteSets, TLC

VARIABLES
    users,            \* table users: user_id -> row
    user_states,      \* table user_states: user_id -> [state, context]
    tasks,            \* table tasks: id -> row
    submissions,      \* table submissions: id -> row
    offline_messages, \* table offline_messages: id -> row
    seq,              \* AUTOINCREMENT counters of the three tables
    now,              \* the clock (datetime.now(moscow_tz))
    user_data,        \* user bot, in memory: context.user_data per user
    reg_conv,         \* user bot, in memory: state of registration_handler
    edit_conv,        \* user bot, in memory: state of profile_edit_handler
    buttons,          \* user bot: the submit_task_<id> buttons sent to each user
    admin_data,       \* admin bot, in memory: context.user_data of the admin
    panels,           \* admin bot: the buttons under each message it sent
    reply,            \* the last outbound reply
    environ,          \* os.environ of the two processes
    admin_ids,        \* admin bot, in memory: AdminBot.admin_ids
    process           \* where each process is: "new", "exited" or "polling"

vars == <<users, user_states, tasks, submissions, offline_messages, seq, now,
          user_data, reg_conv, edit_conv, buttons, admin_data, panels, reply,
          environ, admin_ids, process>>

store == <<users, user_states, tasks, submissions, offline_messages, seq>>

-----------------------------------------------------------------------------
(* Bounds of the model *)

MaxTime == 2
MaxTasks == 3
InitDeadline == 1
MaxSubs == 2
MaxMsgs == 6

UserIds == {"u1"}
AdminActors == {"admin", "u1"}
Panels == {"p1", "p2"}

-----------------------------------------------------------------------------
(* States of the conversations, bot.py *)

IDLE == 0
REGISTRATION_FIRST_NAME == 1
REGISTRATION_LAST_NAME == 2
PARTICIPATION_TYPE == 3
FAMILY_MEMBERS_COUNT == 4
CHILDREN_INFO == 5
SUPPORT_MESSAGE == 10
TASK_SUBMISSION == 20
EDIT_FIRST_NAME == 30
EDIT_LAST_NAME == 31

END == -1

RegistrationStates ==
    {REGISTRATION_LAST_NAME, REGISTRATION_FIRST_NAME, PARTICIPATION_TYPE,
     FAMILY_MEMBERS_COUNT, CHILDREN_INFO}

-----------------------------------------------------------------------------
(* Texts *)

Label(tag, n) == [i \in 1..n |-> IF i = 1 THEN tag ELSE "_"]

BTN_INDIVIDUAL == Label("individual", 15)
BTN_FAMILY == Label("family", 14)
BTN_MAIN_MENU == Label("main_menu", 14)
BTN_EDIT_FIRST_NAME == Label("edit_first_name", 15)
BTN_EDIT_LAST_NAME == Label("edit_last_name", 19)
BTN_SUPPORT == Label("support", 23)
BTN_RESULTS == Label("results", 15)
BTN_SUBMIT == Label("submit", 31)
SectionLabels == {BTN_MAIN_MENU, BTN_RESULTS}
TXT_NO == <<"n", "e", "t">>
TXT_NAME == <<"I", "v">>
TXT_PADDED == <<" ", "3", " ">>
TXT_REPORT == Label("report", 11)
TXT_TEN == Label("ten", 10)

Texts ==
    {TXT_NAME, TXT_PADDED, TXT_NO, TXT_REPORT, BTN_INDIVIDUAL, BTN_FAMILY,
     BTN_MAIN_MENU, BTN_EDIT_FIRST_NAME, BTN_EDIT_LAST_NAME, BTN_SUPPORT,
     BTN_SUBMIT, BTN_RESULTS}

MediaKinds == {"photo", "video", "document"}

RECURSIVE LStrip(_)
LStrip(s) == IF s # <<>> /\ Head(s) = " " THEN LStrip(Tail(s)) ELSE s

RECURSIVE RStrip(_)
RStrip(s) ==
    IF s # <<>> /\ s[Len(s)] = " " THEN RStrip(SubSeq(s, 1, Len(s) - 1)) ELSE s

Strip(s) == RStrip(LStrip(s))

Digits == {"0", "1", "2", "3", "4", "5", "6", "7", "8", "9"}

DigitVal(c) ==
    CASE c = "0" -> 0 [] c = "1" -> 1 [] c = "2" -> 2 [] c = "3" -> 3
      [] c = "4" -> 4 [] c = "5" -> 5 [] c = "6" -> 6 [] c = "7" -> 7
      [] c = "8" -> 8 [] c = "9" -> 9

IsInt(s) == s # <<>> /\ \A i \in 1..Len(s) : s[i] \in Digits

RECURSIVE IntOf(_)
IntOf(s) ==
    IF ~IsInt(s) THEN 0
    ELSE IF Len(s) = 1 THEN DigitVal(s[1])
    ELSE 10 * IntOf(SubSeq(s, 1, Len(s) - 1)) + DigitVal(s[Len(s)])

ParseInt(s) ==
    IF s # <<>> /\ Head(s) \in {"+", "-"}
    THEN [ok |-> IsInt(Tail(s)),
          val |-> IF Head(s) = "-" THEN 0 - IntOf(Tail(s)) ELSE IntOf(Tail(s))]
    ELSE [ok |-> IsInt(s), val |-> IntOf(s)]

LowerChar(c) ==
    CASE c = "N" -> "n" [] c = "E" -> "e" [] c = "T" -> "t" [] c = "A" -> "a"
      [] OTHER -> c

Lower(s) == [i \in 1..Len(s) |-> LowerChar(s[i])]

NoneVal == <<"None">>

-----------------------------------------------------------------------------
(* Python dicts: context.user_data and the persisted context *)

EmptyCtx == <<>>

Has(d, k) == k \in DOMAIN d

Get(d, k, default) == IF k \in DOMAIN d THEN d[k] ELSE default

Merge(over, base) == over @@ base

Marks(keys) == [k \in {"bookkeeping"} |-> keys # {}]

-----------------------------------------------------------------------------
(* database.py: the tables *)

NoDeadline == -1

(* update.effective_user: the username and the two names of the Telegram *)
(* account, and the same account after its owner renamed it               *)
Account == [username |-> "eco", first_name |-> "Eco", last_name |-> "Friend"]
RenamedAccount == [username |-> "green", first_name |-> "Green", last_name |-> ""]

NewUserRow(from_user) ==
    [username |-> from_user.username,
     telegram_first_name |-> from_user.first_name,
     telegram_last_name |-> from_user.last_name,
     first_name |-> NoneVal, last_name |-> NoneVal,
     participation_type |-> "individual", family_members_count |-> 1,
     children_info |-> NoneVal, registration_completed |-> FALSE]

(* add_user, were it an INSERT OR REPLACE of the row *)
AddUser_replacing(us, u, from_user) ==
    [v \in DOMAIN us \cup {u} |-> IF v = u THEN NewUserRow(from_user) ELSE us[v]]

AddUser(us, u, from_user) ==
    IF u \in DOMAIN us
    THEN [us EXCEPT ![u].username = from_user.username,
                    ![u].telegram_first_name = from_user.first_name,
                    ![u].telegram_last_name = from_user.last_name]
    ELSE (u :> NewUserRow(from_user)) @@ us

GetUser(us, u) == IF u \in DOMAIN us THEN us[u] ELSE NoneVal

IsUserRegistered(us, u) == u \in DOMAIN us /\ us[u].registration_completed

(* update_user_registration with the two names bound to each other's column *)
UpdateUserRegistration_swapped(us, u, fn, ln, pt, fc, ci) ==
    IF u \in DOMAIN us
    THEN [us EXCEPT ![u].first_name = ln, ![u].last_name = fn,
                    ![u].participation_type = pt,
                    ![u].family_members_count = fc, ![u].children_info = ci,
                    ![u].registration_completed = TRUE]
    ELSE us

UpdateUserRegistration(us, u, fn, ln, pt, fc, ci) ==
    IF u \in DOMAIN us
    THEN [us EXCEPT ![u].first_name = fn, ![u].last_name = ln,
                    ![u].participation_type = pt,
                    ![u].family_members_count = fc, ![u].children_info = ci,
                    ![u].registration_completed = TRUE]
    ELSE us

UpdateUserName(us, u, fn, ln) ==
    IF u \in DOMAIN us
    THEN [us EXCEPT ![u].first_name = fn, ![u].last_name = ln]
    ELSE us

(* json.dumps and json.loads of a dict with string keys: the JSON object   *)
(* is the set of its members, <<key, value>>.                             *)
JsonDumps(d) == {<<k, d[k]>> : k \in DOMAIN d}

JsonLoads(j) ==
    [k \in {member[1] : member \in j} |->
        (CHOOSE member \in j : member[1] = k)[2]]

(* What get_user_state returns: the step and the context *)
StateRow(s, ctx) == [state |-> s, context |-> ctx]

(* A row of user_states, whose PRIMARY KEY is user_id: the table is a      *)
(* function of the user ids.  last_updated is read by the cleanup of the   *)
(* logs only, which takes the rows that are old as they are given to it.   *)
UserStateRecord(s, ctx) == [current_state |-> s, context_data |-> JsonDumps(ctx)]

(* save_user_state were it INSERT OR IGNORE: the first row of a user stays *)
SaveUserState_or_ignore(st, u, s, ctx) ==
    IF u \in DOMAIN st THEN st ELSE (u :> UserStateRecord(s, ctx)) @@ st

(* INSERT OR REPLACE INTO user_states *)
SaveUserState(st, u, s, ctx) == (u :> UserStateRecord(s, ctx)) @@ st

GetUserState(st, u) ==
    IF u \in DOMAIN st
    THEN StateRow(st[u].current_state, JsonLoads(st[u].context_data))
    ELSE StateRow(IDLE, EmptyCtx)

(* UPDATE the row of the user, INSERT one if there is none *)
ClearUserState(st, u) ==
    IF u \in DOMAIN st
    THEN [st EXCEPT ![u] = UserStateRecord(IDLE, EmptyCtx)]
    ELSE (u :> UserStateRecord(IDLE, EmptyCtx)) @@ st

(* The offline_messages table with its AUTOINCREMENT counter: [rows, next, ok]. *)
(* An INSERT fails (raises) once the ids of the model are used up.              *)
Inbox(rows, next) == [rows |-> rows, next |-> next, ok |-> TRUE]

SaveOfflineMessage(db, u, mtype, data) ==
    IF db.next <= MaxMsgs
    THEN [rows |-> (db.next :> [user_id |-> u, message_type |-> mtype,
                                message_data |-> IF mtype = "potential_report"
                                                 THEN data ELSE EmptyCtx,
                                processed |-> FALSE])
                   @@ db.rows,
          next |-> db.next + 1,
          ok |-> TRUE]
    ELSE [db EXCEPT !.ok = FALSE]

GetOfflineMessages(rows, u) ==
    {i \in DOMAIN rows : rows[i].user_id = u /\ ~rows[i].processed}

MarkOfflineMessageProcessed(rows, i) ==
    IF i \in DOMAIN rows THEN [rows EXCEPT ![i].processed = TRUE] ELSE rows

(* _check_submission_deadline with a strict comparison *)
CheckSubmissionDeadline_strict(ts, tid, submission_time) ==
    IF tid \notin DOMAIN ts \/ ts[tid].deadline = NoDeadline
    THEN TRUE
    ELSE submission_time < ts[tid].deadline

CheckSubmissionDeadline(ts, tid, submission_time) ==
    IF tid \notin DOMAIN ts \/ ts[tid].deadline = NoDeadline
    THEN TRUE
    ELSE submission_time <= ts[tid].deadline

SubmissionRow(u, tid, kind, content, file_id, file_path, date, status, on_time) ==
    [user_id |-> u, task_id |-> tid, submission_type |-> kind,
     content |-> content, file_id |-> file_id, file_path |-> file_path,
     submission_date |-> date, status |-> status, is_on_time |-> on_time]

SubmitTask(subs, id, ts, t, u, tid, kind, content, file_id, file_path) ==
    (id :> SubmissionRow(u, tid, kind, content, file_id, file_path, t, "pending",
                         CheckSubmissionDeadline(ts, tid, t))) @@ subs

-----------------------------------------------------------------------------
(* bot.py: what a handler sees and changes.                                 *)
(*                                                                          *)
(* A handler is an operator from a world to a world: the tables, the        *)
(* caller's context.user_data (ud), the last reply, the value the handler   *)
(* returns (ret) and whether it raised.                                     *)

NONE == -2

Reply(to, by, kind, args) == [to |-> to, by |-> by, kind |-> kind, args |-> args]

NoReply == Reply("", "", "none", <<>>)

World(u) ==
    [users |-> users, user_states |-> user_states, tasks |-> tasks,
     submissions |-> submissions, next_sub |-> seq.sub,
     inbox |-> Inbox(offline_messages, seq.msg), now |-> now,
     ud |-> user_data[u], buttons |-> buttons[u], reply |-> reply,
     submit_fails |-> FALSE, ret |-> NONE, raised |-> FALSE, crash |-> "no",
     fault |-> "none", from_user |-> Account]

Commit(u, w) ==
    /\ process.user = "polling"
    /\ w.next_sub <= MaxSubs + 1
    /\ users' = w.users
    /\ user_states' = w.user_states
    /\ submissions' = w.submissions
    /\ offline_messages' = w.inbox.rows
    /\ seq' = [seq EXCEPT !.sub = w.next_sub, !.msg = w.inbox.next]
    /\ user_data' = [user_data EXCEPT ![u] = w.ud]
    /\ buttons' = [buttons EXCEPT ![u] = w.buttons]
    /\ reply' = w.reply
    /\ UNCHANGED <<tasks, now, admin_data, panels, environ, admin_ids,
                   process>>

(* The state a conversation handler keeps for the value its callback returned *)
ConvAfter(conv, u, w) ==
    IF w.raised \/ w.ret = NONE THEN conv ELSE [conv EXCEPT ![u] = w.ret]

TextMsg(t) == [kind |-> "text", text |-> t]
MediaMsg(k, downloads) == [kind |-> k, downloads |-> downloads]
CMD_START == Label("/start", 6)

error_handler(w, u, m) ==
    LET data == IF m.kind = "text"
                THEN [text |-> m.text, error |-> TRUE, date |-> TRUE]
                ELSE IF m.kind \in {"photo", "video"}
                THEN [caption |-> NoneVal, file_id |-> m.kind, error |-> TRUE,
                      date |-> TRUE]
                ELSE EmptyCtx
        mtype == IF m.kind = "text" THEN "text_error"
                 ELSE IF m.kind = "photo" THEN "photo_error"
                 ELSE IF m.kind = "video" THEN "video_error"
                 ELSE "error"
    IN [w EXCEPT !.inbox = [SaveOfflineMessage(w.inbox, u, mtype, data)
                              EXCEPT !.ok = TRUE],
                 !.reply = Reply(u, "error_handler", "error_message_saved", <<>>),
                 !.raised = TRUE]

_process_offline_messages(w, u) ==
    [w EXCEPT !.inbox.rows =
        [i \in DOMAIN w.inbox.rows |->
            IF i \in GetOfflineMessages(w.inbox.rows, u)
            THEN [w.inbox.rows[i] EXCEPT !.processed = TRUE]
            ELSE w.inbox.rows[i]]]

_continue_from_state(w, u, m, state) ==
    LET by == "_continue_from_state" IN
    CASE state = REGISTRATION_LAST_NAME ->
            [w EXCEPT !.reply = Reply(u, by, "ask_last_name", <<>>),
                      !.ret = REGISTRATION_LAST_NAME]
      [] state = REGISTRATION_FIRST_NAME ->
            [w EXCEPT !.reply = Reply(u, by, "ask_first_name",
                                      <<Get(w.ud, "last_name", <<>>)>>),
                      !.ret = REGISTRATION_FIRST_NAME]
      [] state = PARTICIPATION_TYPE ->
            [w EXCEPT !.reply = Reply(u, by, "ask_participation_type",
                                      <<Get(w.ud, "first_name", <<>>),
                                        Get(w.ud, "last_name", <<>>)>>),
                      !.ret = PARTICIPATION_TYPE]
      [] state = FAMILY_MEMBERS_COUNT ->
            [w EXCEPT !.reply = Reply(u, by, "ask_family_members_count", <<>>),
                      !.ret = FAMILY_MEMBERS_COUNT]
      [] state = CHILDREN_INFO ->
            [w EXCEPT !.reply = Reply(u, by, "ask_children_info",
                                      <<Get(w.ud, "family_members_count", 1)>>),
                      !.ret = CHILDREN_INFO]
      [] state = TASK_SUBMISSION ->
            \* current_context is no name of the function: NameError
            error_handler(w, u, m)
      [] state = EDIT_FIRST_NAME ->
            [w EXCEPT !.reply = Reply(u, by, "ask_new_first_name", <<>>),
                      !.ret = EDIT_FIRST_NAME]
      [] state = EDIT_LAST_NAME ->
            [w EXCEPT !.reply = Reply(u, by, "ask_new_last_name", <<>>),
                      !.ret = EDIT_LAST_NAME]
      [] OTHER ->
            [w EXCEPT !.user_states = ClearUserState(w.user_states, u),
                      !.ret = END]

(* start that resumes without restoring the persisted context *)
start_without_restore(w0, u, m) ==
    LET w1 == [w0 EXCEPT !.users = AddUser(w0.users, u, w0.from_user)]
        w == _process_offline_messages(w1, u)
        saved == GetUserState(w.user_states, u)
    IN
    IF saved.state # IDLE /\ ~IsUserRegistered(w.users, u)
    THEN _continue_from_state(
             [w EXCEPT !.reply = Reply(u, "start", "session_restore", <<>>)],
             u, m, saved.state)
    ELSE IF IsUserRegistered(w.users, u)
    THEN [w EXCEPT !.user_states = ClearUserState(w.user_states, u),
                   !.reply = Reply(u, "start", "welcome_back",
                                   <<w.users[u].last_name>>),
                   !.ret = END]
    ELSE [w EXCEPT !.user_states =
                       SaveUserState(w.user_states, u, REGISTRATION_LAST_NAME,
                                     EmptyCtx),
                   !.reply = Reply(u, "start", "welcome_ask_last_name", <<>>),
                   !.ret = REGISTRATION_LAST_NAME]

start(w0, u, m) ==
    LET w1 == [w0 EXCEPT !.users = AddUser(w0.users, u, w0.from_user)]
        w == _process_offline_messages(w1, u)
        saved == GetUserState(w.user_states, u)
    IN
    IF saved.state # IDLE /\ ~IsUserRegistered(w.users, u)
    THEN _continue_from_state(
             [w EXCEPT !.ud = Merge(saved.context, w.ud),
                       !.reply = Reply(u, "start", "session_restore", <<>>)],
             u, m, saved.state)
    ELSE IF IsUserRegistered(w.users, u)
    THEN [w EXCEPT !.user_states = ClearUserState(w.user_states, u),
                   !.reply = Reply(u, "start", "welcome_back",
                                   <<w.users[u].last_name>>),
                   !.ret = END]
    ELSE [w EXCEPT !.user_states =
                       SaveUserState(w.user_states, u, REGISTRATION_LAST_NAME,
                                     EmptyCtx),
                   !.reply = Reply(u, "start", "welcome_ask_last_name", <<>>),
                   !.ret = REGISTRATION_LAST_NAME]

(* try: save_offline_message(...) except Exception: log *)
TrySave(w, u, mtype, data) ==
    [w EXCEPT !.inbox = [SaveOfflineMessage(w.inbox, u, mtype, data)
                           EXCEPT !.ok = TRUE]]

_complete_registration(w, u, m) ==
    LET by == "_complete_registration" IN
    IF ~({"first_name", "last_name", "participation_type"} \subseteq DOMAIN w.ud)
    THEN error_handler(w, u, m)
    ELSE IF w.crash = "armed"
    THEN \* the process is killed before update_user_registration
         [w EXCEPT !.crash = "hit"]
    ELSE [w EXCEPT
            !.users = UpdateUserRegistration(
                          w.users, u, w.ud["first_name"], w.ud["last_name"],
                          w.ud["participation_type"],
                          Get(w.ud, "family_members_count", 1),
                          Get(w.ud, "children_info", NoneVal)),
            !.user_states = ClearUserState(w.user_states, u),
            !.reply = Reply(u, by, "congratulations",
                            <<w.ud["first_name"], w.ud["last_name"],
                              w.ud["participation_type"]>>),
            !.ud = EmptyCtx]

(* registration_last_name that validates the text as typed, untrimmed *)
registration_last_name_untrimmed(w0, u, m) ==
    LET by == "registration_last_name"
        last_name == m.text
        w == TrySave(w0, u, "registration_input",
                     [step |-> "last_name", input |-> last_name,
                      valid |-> Len(last_name) >= 2, date |-> TRUE])
    IN
    IF Len(last_name) < 2
    THEN [w EXCEPT
            !.user_states =
                SaveUserState(w.user_states, u, REGISTRATION_LAST_NAME,
                    Marks({"invalid_attempts", "last_invalid_input", "timestamp"})),
            !.reply = Reply(u, by, "invalid_last_name", <<>>),
            !.ret = REGISTRATION_LAST_NAME]
    ELSE LET ud == ("last_name" :> last_name) @@ w.ud IN
         [w EXCEPT
            !.ud = ud,
            !.user_states =
                SaveUserState(w.user_states, u, REGISTRATION_FIRST_NAME,
                    Merge(Marks({"last_name_confirmed", "timestamp"}), ud)),
            !.reply = Reply(u, by, "ask_first_name", <<last_name>>),
            !.ret = REGISTRATION_FIRST_NAME]

registration_last_name(w0, u, m) ==
    LET by == "registration_last_name"
        last_name == Strip(m.text)
        w == TrySave(w0, u, "registration_input",
                     [step |-> "last_name", input |-> last_name,
                      valid |-> Len(last_name) >= 2, date |-> TRUE])
    IN
    IF Len(last_name) < 2
    THEN [w EXCEPT
            !.user_states =
                SaveUserState(w.user_states, u, REGISTRATION_LAST_NAME,
                    Marks({"invalid_attempts", "last_invalid_input", "timestamp"})),
            !.reply = Reply(u, by, "invalid_last_name", <<>>),
            !.ret = REGISTRATION_LAST_NAME]
    ELSE LET ud == ("last_name" :> last_name) @@ w.ud IN
         [w EXCEPT
            !.ud = ud,
            !.user_states =
                SaveUserState(w.user_states, u, REGISTRATION_FIRST_NAME,
                    Merge(Marks({"last_name_confirmed", "timestamp"}), ud)),
            !.reply = Reply(u, by, "ask_first_name", <<last_name>>),
            !.ret = REGISTRATION_FIRST_NAME]

registration_first_name(w0, u, m) ==
    LET by == "registration_first_name"
        first_name == Strip(m.text)
        w == TrySave(w0, u, "registration_input",
                     [step |-> "first_name", input |-> first_name,
                      valid |-> Len(first_name) >= 2, current_data |-> w0.ud,
                      date |-> TRUE])
    IN
    IF Len(first_name) < 2
    THEN [w EXCEPT
            !.user_states =
                SaveUserState(w.user_states, u, REGISTRATION_FIRST_NAME,
                    Merge(Marks({"invalid_attempts", "last_invalid_input",
                                 "timestamp"}), w.ud)),
            !.reply = Reply(u, by, "invalid_first_name", <<>>),
            !.ret = REGISTRATION_FIRST_NAME]
    ELSE LET ud == ("first_name" :> first_name) @@ w.ud
             w1 == [w EXCEPT
                      !.ud = ud,
                      !.user_states =
                          SaveUserState(w.user_states, u, PARTICIPATION_TYPE,
                              Merge(Marks({"first_name_confirmed", "timestamp"}),
                                    ud))]
         IN IF ~Has(ud, "last_name")
            THEN error_handler(w1, u, m)
            ELSE [w1 EXCEPT
                    !.reply = Reply(u, by, "ask_participation_type",
                                    <<first_name, ud["last_name"]>>),
                    !.ret = PARTICIPATION_TYPE]

(* participation_type that completes the registration on either choice *)
participation_type_completes_family(w0, u, m) ==
    LET by == "participation_type"
        text == m.text
        w == TrySave(w0, u, "registration_choice",
                     [step |-> "participation_type", choice |-> text,
                      current_data |-> w0.ud, date |-> TRUE])
    IN
    IF text \in {BTN_INDIVIDUAL, BTN_FAMILY}
    THEN LET ud == ("participation_type" :>
                        IF text = BTN_FAMILY THEN "family" ELSE "individual")
                   @@ w.ud
             w1 == _complete_registration(
                     [w EXCEPT
                        !.ud = ud,
                        !.user_states =
                            SaveUserState(w.user_states, u, IDLE,
                                Merge(Marks({"participation_confirmed",
                                             "ready_for_completion", "timestamp"}),
                                      ud))],
                     u, m)
         IN IF w1.raised THEN w1 ELSE [w1 EXCEPT !.ret = END]
    ELSE [w EXCEPT
            !.user_states =
                SaveUserState(w.user_states, u, PARTICIPATION_TYPE,
                    Merge(Marks({"invalid_choice", "invalid_attempts",
                                 "timestamp"}), w.ud)),
            !.reply = Reply(u, by, "invalid_participation_type", <<>>),
            !.ret = PARTICIPATION_TYPE]

participation_type(w0, u, m) ==
    LET by == "participation_type"
        text == m.text
        w == TrySave(w0, u, "registration_choice",
                     [step |-> "participation_type", choice |-> text,
                      current_data |-> w0.ud, date |-> TRUE])
    IN
    IF text = BTN_INDIVIDUAL
    THEN LET ud == ("participation_type" :> "individual") @@ w.ud
             w1 == _complete_registration(
                     [w EXCEPT
                        !.ud = ud,
                        !.user_states =
                            SaveUserState(w.user_states, u, IDLE,
                                Merge(Marks({"participation_confirmed",
                                             "ready_for_completion", "timestamp"}),
                                      ud))],
                     u, m)
         IN IF w1.raised THEN w1 ELSE [w1 EXCEPT !.ret = END]
    ELSE IF text = BTN_FAMILY
    THEN LET ud == ("participation_type" :> "family") @@ w.ud IN
         [w EXCEPT
            !.ud = ud,
            !.user_states =
                SaveUserState(w.user_states, u, FAMILY_MEMBERS_COUNT,
                    Merge(Marks({"participation_confirmed", "timestamp"}), ud)),
            !.reply = Reply(u, by, "ask_family_members_count", <<>>),
            !.ret = FAMILY_MEMBERS_COUNT]
    ELSE [w EXCEPT
            !.user_states =
                SaveUserState(w.user_states, u, PARTICIPATION_TYPE,
                    Merge(Marks({"invalid_choice", "invalid_attempts",
                                 "timestamp"}), w.ud)),
            !.reply = Reply(u, by, "invalid_participation_type", <<>>),
            !.ret = PARTICIPATION_TYPE]

family_members_count(w0, u, m) ==
    LET by == "family_members_count"
        count_input == Strip(m.text)
        w == TrySave(w0, u, "registration_input",
                     [step |-> "family_members_count", input |-> count_input,
                      current_data |-> w0.ud, date |-> TRUE])
        count == ParseInt(count_input)
    IN
    IF ~count.ok \/ count.val < 1 \/ count.val > 10
    THEN [w EXCEPT
            !.user_states =
                SaveUserState(w.user_states, u, FAMILY_MEMBERS_COUNT,
                    Merge(Marks({"invalid_count_input", "invalid_attempts",
                                 "timestamp"}), w.ud)),
            !.reply = Reply(u, by, "invalid_family_members_count", <<>>),
            !.ret = FAMILY_MEMBERS_COUNT]
    ELSE LET ud == ("family_members_count" :> count.val) @@ w.ud IN
         [w EXCEPT
            !.ud = ud,
            !.user_states =
                SaveUserState(w.user_states, u, CHILDREN_INFO,
                    Merge(Marks({"family_count_confirmed", "timestamp"}), ud)),
            !.reply = Reply(u, by, "ask_children_info", <<count.val>>),
            !.ret = CHILDREN_INFO]

children_info(w0, u, m) ==
    LET info == Strip(m.text)
        w == TrySave(w0, u, "registration_input",
                     [step |-> "children_info", input |-> info,
                      current_data |-> w0.ud, date |-> TRUE])
        ud == ("children_info" :> (IF Lower(info) # TXT_NO THEN info ELSE NoneVal))
              @@ w.ud
        w1 == _complete_registration(
                [w EXCEPT
                   !.ud = ud,
                   !.user_states =
                       SaveUserState(w.user_states, u, IDLE,
                           Merge(Marks({"children_info_confirmed",
                                        "ready_for_completion", "timestamp"}),
                                 ud))],
                u, m)
    IN IF w1.raised THEN w1 ELSE [w1 EXCEPT !.ret = END]

GetOpenTasks(ts, t) ==
    {i \in DOMAIN ts :
        ts[i].is_open /\ (ts[i].deadline = NoDeadline \/ ts[i].deadline > t)}

(* The titles of the tasks the user has a submission for (JOIN tasks) *)
GetUserSubmissions(subs, ts, u) ==
    {ts[subs[i].task_id].title :
        i \in {j \in DOMAIN subs : subs[j].user_id = u /\ subs[j].task_id \in DOMAIN ts}}

Min(S) == CHOOSE x \in S : \A y \in S : x <= y
Max(S) == CHOOSE x \in S : \A y \in S : x >= y

_send_task_submission(w, u) ==
    LET open_tasks == GetOpenTasks(w.tasks, w.now)
        submitted_task_ids ==
            {Min({i \in open_tasks : w.tasks[i].title = title}) :
                title \in {x \in GetUserSubmissions(w.submissions, w.tasks, u) :
                              \E i \in open_tasks : w.tasks[i].title = x}}
        available_tasks == open_tasks \ submitted_task_ids
    IN [w EXCEPT !.buttons = w.buttons \cup available_tasks,
                 !.reply = Reply(u, "_send_task_submission", "task_list",
                                 <<available_tasks>>)]

_send_main_menu(w, u) ==
    [w EXCEPT !.user_states = ClearUserState(w.user_states, u),
              !.reply = Reply(u, "_send_main_menu", "main_menu", <<>>)]

_start_support_request(w, u) ==
    [w EXCEPT !.reply = Reply(u, "_start_support_request", "support", <<>>)]

_start_edit_first_name(w, u) ==
    [w EXCEPT
        !.user_states = SaveUserState(w.user_states, u, EDIT_FIRST_NAME, EmptyCtx),
        !.reply = Reply(u, "_start_edit_first_name", "ask_new_first_name", <<>>),
        !.ret = EDIT_FIRST_NAME]

_start_edit_last_name(w, u) ==
    [w EXCEPT
        !.user_states = SaveUserState(w.user_states, u, EDIT_LAST_NAME, EmptyCtx),
        !.reply = Reply(u, "_start_edit_last_name", "ask_new_last_name", <<>>),
        !.ret = EDIT_LAST_NAME]

handle_edit_first_name(w, u, m) ==
    LET by == "handle_edit_first_name"
        new_first_name == Strip(m.text)
    IN
    IF m.text = BTN_MAIN_MENU
    THEN [_send_main_menu(w, u) EXCEPT !.ret = END]
    ELSE IF Len(new_first_name) < 2
    THEN [w EXCEPT !.reply = Reply(u, by, "invalid_first_name", <<>>),
                   !.ret = EDIT_FIRST_NAME]
    ELSE IF u \in DOMAIN w.users
    THEN [w EXCEPT
            !.users = UpdateUserName(w.users, u, new_first_name,
                                     w.users[u].last_name),
            !.user_states = ClearUserState(w.user_states, u),
            !.reply = Reply(u, by, "first_name_changed", <<new_first_name>>),
            !.ret = END]
    ELSE [w EXCEPT !.reply = Reply(u, by, "save_error", <<>>), !.ret = END]

handle_edit_last_name(w, u, m) ==
    LET by == "handle_edit_last_name"
        new_last_name == Strip(m.text)
    IN
    IF m.text = BTN_MAIN_MENU
    THEN [_send_main_menu(w, u) EXCEPT !.ret = END]
    ELSE IF Len(new_last_name) < 2
    THEN [w EXCEPT !.reply = Reply(u, by, "invalid_last_name", <<>>),
                   !.ret = EDIT_LAST_NAME]
    ELSE IF u \in DOMAIN w.users
    THEN [w EXCEPT
            !.users = UpdateUserName(w.users, u, w.users[u].first_name,
                                     new_last_name),
            !.user_states = ClearUserState(w.user_states, u),
            !.reply = Reply(u, by, "last_name_changed", <<new_last_name>>),
            !.ret = END]
    ELSE [w EXCEPT !.reply = Reply(u, by, "save_error", <<>>), !.ret = END]

FILE_ID == <<"file_id">>
FilePath(kind) == <<"files", kind>>

(* _download_and_save_file, were a failed download to leave a path *)
DownloadAndSaveFile_placeholder(kind, downloads) == FilePath(kind)

(* _download_and_save_file: the relative path of the saved file, or None  *)
(* when any step of the download raised                                   *)
DownloadAndSaveFile(kind, downloads) ==
    IF downloads THEN FilePath(kind) ELSE NoneVal

DefaultCaption(kind) == <<kind, "report">>

SubmissionLogType(kind) ==
    CASE kind = "text" -> "submission_text"
      [] kind = "photo" -> "submission_photo"
      [] kind = "video" -> "submission_video"
      [] kind = "document" -> "submission_document"

(* The except branch of handle_task_submission_content, were it to clear    *)
(* the persisted state as the try branch does.                              *)
submission_not_saved_clearing(w, u, m, error_data) ==
    LET e == SaveOfflineMessage(w.inbox, u, "submission_error", error_data) IN
    IF ~e.ok
    THEN error_handler(w, u, m)
    ELSE [w EXCEPT !.inbox = e,
                   !.user_states = ClearUserState(w.user_states, u),
                   !.reply = Reply(u, "handle_task_submission_content",
                                   "submission_error_saved", <<>>),
                   !.ret = END]

(* The except branch of handle_task_submission_content: the failure is      *)
(* recorded in the inbox and the user is answered; the persisted state is   *)
(* left as it is.                                                           *)
submission_not_saved(w, u, m, error_data) ==
    LET e == SaveOfflineMessage(w.inbox, u, "submission_error", error_data) IN
    IF ~e.ok
    THEN error_handler(w, u, m)
    ELSE [w EXCEPT !.inbox = e,
                   !.reply = Reply(u, "handle_task_submission_content",
                                   "submission_error_saved", <<>>),
                   !.ret = END]

handle_task_submission_content(w0, u, m) ==
    LET by == "handle_task_submission_content"
        current == GetUserState(w0.user_states, u)
    IN
    IF ~Has(w0.ud, "selected_task_id") /\ ~Has(current.context, "selected_task_id")
    THEN [w0 EXCEPT !.reply = Reply(u, by, "choose_task_first", <<>>),
                    !.ret = END]
    ELSE
    LET ud == IF Has(w0.ud, "selected_task_id") THEN w0.ud
              ELSE ("selected_task_id" :> current.context["selected_task_id"])
                   @@ w0.ud
        task_id == ud["selected_task_id"]
        submission_type == m.kind
        content == IF m.kind = "text" THEN m.text ELSE DefaultCaption(m.kind)
        file_id == IF m.kind = "text" THEN NoneVal ELSE FILE_ID
        file_path == IF m.kind = "text" THEN NoneVal
                     ELSE DownloadAndSaveFile(m.kind, m.downloads)
        w1 == [w0 EXCEPT
                 !.ud = ud,
                 !.user_states =
                     SaveUserState(w0.user_states, u, TASK_SUBMISSION,
                         ("selected_task_id" :> task_id)
                         @@ Marks({"submission_attempt"}))]
        w == TrySave(w1, u, SubmissionLogType(submission_type),
                     [type |-> submission_type, content |-> content,
                      file_id |-> file_id, file_path |-> file_path,
                      task_id |-> task_id, date |-> TRUE])
        error_data == [task_id |-> task_id, submission_type |-> submission_type,
                       content |-> content, file_id |-> file_id,
                       file_path |-> file_path, error |-> TRUE, date |-> TRUE]
        submitted == [w EXCEPT
                        !.submissions =
                            SubmitTask(w.submissions, w.next_sub, w.tasks, w.now,
                                       u, task_id, submission_type, content,
                                       file_id, file_path),
                        !.next_sub = w.next_sub + 1]
        cleared == [submitted EXCEPT
                      !.user_states = ClearUserState(w.user_states, u)]
    IN
    IF w.submit_fails
    THEN submission_not_saved(w, u, m, error_data)
    ELSE IF w.fault = "clear_user_state"
    THEN submission_not_saved(submitted, u, m, error_data)
    ELSE IF w.fault = "reply_text"
    THEN submission_not_saved(cleared, u, m, error_data)
    ELSE LET is_on_time == CheckSubmissionDeadline(w.tasks, task_id, w.now) IN
         [cleared EXCEPT
            !.reply = Reply(u, by, IF is_on_time THEN "submitted_on_time"
                                   ELSE "submitted_late", <<>>),
            !.ud = EmptyCtx,
            !.ret = END]

(* handle_message, were the length heuristic to take ten characters too *)
IsPotentialReport_from_ten(text) == Len(text) >= 10

(* handle_message: "if len(text) > 10", the text may be a report *)
IsPotentialReport(text) == Len(text) > 10

handle_message(w0, u, m) ==
    LET by == "handle_message" IN
    IF ~IsUserRegistered(w0.users, u)
    THEN [TrySave(w0, u, "text_unregistered",
                  [text |-> m.text, date |-> TRUE, context |-> "unregistered_user"])
            EXCEPT !.reply = Reply(u, by, "register_first", <<>>)]
    ELSE
    LET t == SaveOfflineMessage(w0.inbox, u, "text_processing",
                 [text |-> m.text, date |-> TRUE, context |-> "main_menu"])
        temp_msg_id == IF t.ok THEN Max(GetOfflineMessages(t.rows, u)) ELSE 0
        w == [w0 EXCEPT !.inbox = [t EXCEPT !.ok = TRUE]]
        saved == GetUserState(w.user_states, u)
        restored == [w EXCEPT !.ud = Merge(saved.context, w.ud)]
        done(x) == IF temp_msg_id # 0
                   THEN [x EXCEPT !.inbox.rows =
                            MarkOfflineMessageProcessed(x.inbox.rows, temp_msg_id)]
                   ELSE x
        failed == [w EXCEPT !.reply = Reply(u, by, "processing_error", <<>>)]
    IN
    IF saved.state = EDIT_FIRST_NAME THEN handle_edit_first_name(restored, u, m)
    ELSE IF saved.state = EDIT_LAST_NAME THEN handle_edit_last_name(restored, u, m)
    ELSE IF saved.state = TASK_SUBMISSION
    THEN handle_task_submission_content(restored, u, m)
    ELSE IF m.text = BTN_SUBMIT
    THEN done(_send_task_submission(
                 [w EXCEPT !.user_states = ClearUserState(w.user_states, u)], u))
    ELSE IF m.text = BTN_MAIN_MENU
    THEN done(_send_main_menu(w, u))
    ELSE IF m.text \in SectionLabels
    THEN done([w EXCEPT !.user_states = ClearUserState(w.user_states, u),
                        !.reply = Reply(u, by, "section", <<m.text>>)])
    ELSE IF m.text = BTN_EDIT_FIRST_NAME
    THEN done([_start_edit_first_name(w, u) EXCEPT !.ret = NONE])
    ELSE IF m.text = BTN_EDIT_LAST_NAME
    THEN done([_start_edit_last_name(w, u) EXCEPT !.ret = NONE])
    ELSE IF m.text = BTN_SUPPORT
    THEN done(_start_support_request(
                 [w EXCEPT !.user_states = ClearUserState(w.user_states, u)], u))
    ELSE
    LET k == SaveOfflineMessage(w.inbox, u, "text_unknown",
                 [text |-> m.text, date |-> TRUE, context |-> "unknown_command"])
        p == SaveOfflineMessage(k, u, "potential_report",
                 [user_id |-> u, content |-> m.text, type |-> "text",
                  date |-> TRUE, context |-> "potential_report_out_of_context"])
    IN
    IF ~k.ok THEN failed
    ELSE IF IsPotentialReport(m.text)
    THEN IF ~p.ok
         THEN [failed EXCEPT !.inbox = k]
         ELSE done([w EXCEPT !.inbox = p,
                             !.reply = Reply(u, by, "not_accepted", <<>>)])
    ELSE done([w EXCEPT !.inbox = k,
                        !.reply = Reply(u, by, "unknown_command", <<>>)])

_start_task_submission(w, u, task_id) ==
    LET ud == ("selected_task_id" :> task_id) @@ w.ud IN
    [w EXCEPT
        !.ud = ud,
        !.user_states = SaveUserState(w.user_states, u, TASK_SUBMISSION, ud),
        !.reply = Reply(u, "_start_task_submission", "ask_report", <<task_id>>)]

_show_main_menu_callback(w, u) ==
    [w EXCEPT !.user_states = ClearUserState(w.user_states, u),
              !.reply = Reply(u, "_show_main_menu_callback", "main_menu", <<>>)]

(* data: <<"main_menu">>, <<"submit_tasks">> or <<"submit_task", id>> *)
handle_callback(w, u, data) ==
    IF ~IsUserRegistered(w.users, u)
    THEN [w EXCEPT !.reply = Reply(u, "handle_callback", "register_first", <<>>)]
    ELSE IF data[1] = "main_menu" THEN _show_main_menu_callback(w, u)
    ELSE IF data[1] = "submit_task" THEN _start_task_submission(w, u, data[2])
    ELSE [_send_task_submission(w, u)
            EXCEPT !.reply.by = "_show_task_submission_callback"]

(* The three handlers, were they to file an attachment only once its file *)
(* is downloaded                                                          *)
handle_media_message_downloaded_only(w, u, m) ==
    LET by == "handle_media_message"
        saved == GetUserState(w.user_states, u)
        p == SaveOfflineMessage(w.inbox, u, "potential_report",
                 [user_id |-> u, content |-> DefaultCaption(m.kind),
                  type |-> m.kind, file_id |-> FILE_ID,
                  file_path |-> FilePath(m.kind),
                  date |-> TRUE, context |-> "potential_report_out_of_context"])
    IN
    IF ~IsUserRegistered(w.users, u)
    THEN [w EXCEPT !.reply = Reply(u, by, "register_first", <<>>)]
    ELSE IF saved.state = TASK_SUBMISSION
    THEN handle_task_submission_content(
             [w EXCEPT !.ud = Merge(saved.context, w.ud)], u, m)
    ELSE IF ~p.ok THEN error_handler(w, u, m)
    ELSE IF ~m.downloads
    THEN [w EXCEPT !.reply = Reply(u, by, "media_received", <<m.kind>>)]
    ELSE [w EXCEPT !.inbox = p,
                   !.reply = Reply(u, by, "media_received", <<m.kind>>)]

(* handle_photo_message, handle_video_message, handle_document_message *)
(* handle_media_message, were it to take every attachment of a registered *)
(* user as a report, whatever the persisted step                           *)
handle_media_message_unguarded(w, u, m) ==
    IF ~IsUserRegistered(w.users, u)
    THEN [w EXCEPT !.reply = Reply(u, "handle_media_message", "register_first",
                                   <<>>)]
    ELSE handle_task_submission_content(
             [w EXCEPT !.ud = Merge(GetUserState(w.user_states, u).context, w.ud)],
             u, m)

handle_media_message(w, u, m) ==
    LET by == "handle_media_message"
        saved == GetUserState(w.user_states, u)
        file_path == DownloadAndSaveFile(m.kind, m.downloads)
        p == SaveOfflineMessage(w.inbox, u, "potential_report",
                 [user_id |-> u, content |-> DefaultCaption(m.kind),
                  type |-> m.kind, file_id |-> FILE_ID, file_path |-> file_path,
                  date |-> TRUE, context |-> "potential_report_out_of_context"])
    IN
    IF ~IsUserRegistered(w.users, u)
    THEN [w EXCEPT !.reply = Reply(u, by, "register_first", <<>>)]
    ELSE IF saved.state = TASK_SUBMISSION
    THEN handle_task_submission_content(
             [w EXCEPT !.ud = Merge(saved.context, w.ud)], u, m)
    ELSE IF ~p.ok THEN error_handler(w, u, m)
    ELSE [w EXCEPT !.inbox = p,
                   !.reply = Reply(u, by, "media_received", <<m.kind>>)]

-----------------------------------------------------------------------------
(* The environment of the two processes and what main() makes of it.      *)
(* The value of a variable is a string, a sequence of characters.          *)

MaxEnvLen == 3
EnvChars == {"1", "2", ",", " ", "a", "l", "A"}
TOKEN == <<"t">>
ALL == <<"a", "l", "l">>

(* The id Telegram gives the actor *)
TelegramId(a) == IF a = "admin" THEN 1 ELSE 2

(* str.split(',') *)
RECURSIVE Split(_)
Split(s) ==
    IF \A i \in DOMAIN s : s[i] # ","
    THEN <<s>>
    ELSE LET i == CHOOSE k \in DOMAIN s :
                      s[k] = "," /\ \A l \in 1..(k - 1) : s[l] # ","
         IN <<SubSeq(s, 1, i - 1)>> \o Split(SubSeq(s, i + 1, Len(s)))

(* os.getenv(name, default) *)
getenv(env, name, default) ==
    IF name \in DOMAIN env THEN env[name] ELSE default

(* "if not token": the variable is not set or is the empty string *)
NoToken(env, name) == name \notin DOMAIN env \/ env[name] = <<>>

AdminIdsEnv(env) == getenv(env, "ADMIN_IDS", getenv(env, "ADMIN_ID", <<>>))

(* bot.py main(): where the process is after its checks *)
main(env) == IF NoToken(env, "BOT_TOKEN") THEN "exited" ELSE "polling"

(* admin_bot.py main(), were it to skip the parts that are no ids as      *)
(* _get_admin_ids does                                                    *)
admin_main_skipping(env) ==
    IF NoToken(env, "ADMIN_BOT_TOKEN") \/ AdminIdsEnv(env) = <<>>
    THEN "exited"
    ELSE "polling"

(* admin_bot.py main(): int() of a part that is not blank raises          *)
(* ValueError unless the part is a number, and so does a list that is     *)
(* left empty                                                             *)
admin_main(env) ==
    LET admin_ids_env == AdminIdsEnv(env)
        parts == SelectSeq(Split(admin_ids_env), LAMBDA aid : Strip(aid) # <<>>)
    IN
    IF NoToken(env, "ADMIN_BOT_TOKEN") THEN "exited"
    ELSE IF admin_ids_env = <<>> THEN "exited"
    ELSE IF Lower(Strip(admin_ids_env)) = ALL THEN "polling"
    ELSE IF \E i \in DOMAIN parts : ~ParseInt(Strip(parts[i])).ok THEN "exited"
    ELSE IF parts = <<>> THEN "exited"
    ELSE "polling"

(* AdminBot._get_admin_ids: the marker of the open mode, or the numbers   *)
(* int() makes of the parts, a part it refuses being logged and left out  *)
_get_admin_ids(env) ==
    LET admin_env == AdminIdsEnv(env)
        numbers == SelectSeq(Split(admin_env),
                             LAMBDA admin_id : ParseInt(Strip(admin_id)).ok)
    IN
    IF admin_env = <<>> THEN [all |-> FALSE, ids |-> <<>>]
    ELSE IF Lower(Strip(admin_env)) = ALL THEN [all |-> TRUE, ids |-> <<>>]
    ELSE [all |-> FALSE,
          ids |-> [i \in DOMAIN numbers |-> ParseInt(Strip(numbers[i])).val]]

(* The environment the bots of the other specifications were started in *)
DeployedEnviron ==
    ("BOT_TOKEN" :> TOKEN) @@ ("ADMIN_BOT_TOKEN" :> TOKEN)
    @@ ("ADMIN_IDS" :> <<"1">>)

-----------------------------------------------------------------------------
(* database.py create_weekly_tasks, called by EcoBot.__init__ on an empty store *)

TaskRow(title, deadline, is_open, open_date) ==
    [title |-> title, deadline |-> deadline, is_open |-> is_open,
     open_date |-> open_date]

CreateWeeklyTasks ==
    (1 :> TaskRow("observation", InitDeadline, TRUE, NoDeadline))
    @@ (2 :> TaskRow("action", InitDeadline, TRUE, NoDeadline))

Init ==
    /\ users = <<>>
    /\ user_states = <<>>
    /\ tasks = CreateWeeklyTasks
    /\ submissions = <<>>
    /\ offline_messages = <<>>
    /\ seq = [task |-> 3, sub |-> 1, msg |-> 1]
    /\ now = 0
    /\ user_data = [u \in UserIds |-> EmptyCtx]
    /\ reg_conv = [u \in UserIds |-> END]
    /\ edit_conv = [u \in UserIds |-> END]
    /\ buttons = [u \in UserIds |-> {}]
    /\ admin_data = EmptyCtx
    /\ panels = [p \in Panels |-> {}]
    /\ reply = NoReply
    /\ environ = DeployedEnviron
    /\ admin_ids = _get_admin_ids(environ)
    /\ process = [user |-> main(environ), admin |-> admin_main(environ)]

(* The world of the first update after construction *)
FirstWorld ==
    [users |-> <<>>, user_states |-> <<>>, tasks |-> CreateWeeklyTasks,
     submissions |-> <<>>, next_sub |-> 1, inbox |-> Inbox(<<>>, 1), now |-> 0,
     ud |-> EmptyCtx, buttons |-> {}, reply |-> NoReply, submit_fails |-> FALSE,
     ret |-> NONE, raised |-> FALSE, crash |-> "no",
     fault |-> "none", from_user |-> Account]

(* The world after u sent /start, a last name, a first name and the label  *)
(* of individual participation.                                            *)
RegisteredWorld(u) ==
    participation_type(
        registration_first_name(
            registration_last_name(start(FirstWorld, u, TextMsg(CMD_START)),
                                   u, TextMsg(TXT_NAME)),
            u, TextMsg(TXT_NAME)),
        u, TextMsg(BTN_INDIVIDUAL))

(* The state in which the users have just registered *)
InitRegistered ==
    LET w == RegisteredWorld(CHOOSE u \in UserIds : TRUE) IN
    /\ users = w.users
    /\ user_states = w.user_states
    /\ tasks = w.tasks
    /\ submissions = w.submissions
    /\ offline_messages = w.inbox.rows
    /\ seq = [task |-> 3, sub |-> w.next_sub, msg |-> w.inbox.next]
    /\ now = w.now
    /\ user_data = [u \in UserIds |-> w.ud]
    /\ reg_conv = [u \in UserIds |-> w.ret]
    /\ edit_conv = [u \in UserIds |-> END]
    /\ buttons = [u \in UserIds |-> w.buttons]
    /\ admin_data = EmptyCtx
    /\ panels = [p \in Panels |-> {}]
    /\ reply = w.reply
    /\ environ = DeployedEnviron
    /\ admin_ids = _get_admin_ids(environ)
    /\ process = [user |-> main(environ), admin |-> admin_main(environ)]

-----------------------------------------------------------------------------
(* bot.py main(): the updates of the user bot, dispatched over the handlers *)
(* in the order main() registers them.                                      *)

StartCommand(u) ==
    LET w == start(World(u), u, TextMsg(CMD_START)) IN
    /\ Commit(u, w)
    /\ reg_conv' = ConvAfter(reg_conv, u, w)
    /\ UNCHANGED edit_conv

(* /start from an account that was renamed since the bot last saw it *)
StartFromRenamedAccount(u) ==
    LET w == start([World(u) EXCEPT !.from_user = RenamedAccount], u,
                   TextMsg(CMD_START))
    IN
    /\ Commit(u, w)
    /\ reg_conv' = ConvAfter(reg_conv, u, w)
    /\ UNCHANGED edit_conv

RegistrationStep(w, u, m, state) ==
    CASE state = REGISTRATION_LAST_NAME -> registration_last_name(w, u, m)
      [] state = REGISTRATION_FIRST_NAME -> registration_first_name(w, u, m)
      [] state = PARTICIPATION_TYPE -> participation_type(w, u, m)
      [] state = FAMILY_MEMBERS_COUNT -> family_members_count(w, u, m)
      [] state = CHILDREN_INFO -> children_info(w, u, m)

(* A text update of u dispatched over the handlers: the world after it and *)
(* the states of the two conversations.                                    *)
TextDispatch(u, t, submit_fails) ==
    LET m == TextMsg(t)
        w0 == [World(u) EXCEPT !.submit_fails = submit_fails]
    IN
    IF reg_conv[u] \in RegistrationStates
    THEN LET w == RegistrationStep(w0, u, m, reg_conv[u]) IN
         [w |-> w, reg |-> ConvAfter(reg_conv, u, w), edit |-> edit_conv]
    ELSE IF edit_conv[u] \in {EDIT_FIRST_NAME, EDIT_LAST_NAME}
            \/ t \in {BTN_EDIT_FIRST_NAME, BTN_EDIT_LAST_NAME}
    THEN LET w == IF edit_conv[u] = EDIT_FIRST_NAME
                  THEN handle_edit_first_name(w0, u, m)
                  ELSE IF edit_conv[u] = EDIT_LAST_NAME
                  THEN handle_edit_last_name(w0, u, m)
                  ELSE IF t = BTN_EDIT_FIRST_NAME
                  THEN _start_edit_first_name(w0, u)
                  ELSE _start_edit_last_name(w0, u)
         IN [w |-> w, reg |-> reg_conv, edit |-> ConvAfter(edit_conv, u, w)]
    ELSE LET w == IF t = BTN_SUPPORT THEN _start_support_request(w0, u)
                  ELSE handle_message(w0, u, m)
         IN [w |-> w, reg |-> reg_conv, edit |-> edit_conv]

TextMessage(u, t, submit_fails) ==
    LET d == TextDispatch(u, t, submit_fails) IN
    /\ submit_fails => GetUserState(user_states, u).state = TASK_SUBMISSION
    /\ Commit(u, d.w)
    /\ reg_conv' = d.reg
    /\ edit_conv' = d.edit

CallbackQuery(u, data) ==
    /\ data[1] = "submit_task" => data[2] \in buttons[u]
    /\ Commit(u, handle_callback(World(u), u, data))
    /\ UNCHANGED <<reg_conv, edit_conv>>

MediaMessage(u, kind, downloads, submit_fails) ==
    /\ submit_fails => GetUserState(user_states, u).state = TASK_SUBMISSION
    /\ Commit(u, handle_media_message(
                    [World(u) EXCEPT !.submit_fails = submit_fails], u,
                    MediaMsg(kind, downloads)))
    /\ UNCHANGED <<reg_conv, edit_conv>>

(* An attachment of u in the submission step while a call of the try block  *)
(* of handle_task_submission_content that follows submit_task raises: the   *)
(* write of clear_user_state or the send of reply_text.                     *)
SubmissionFaults == {"clear_user_state", "reply_text"}

FaultInSubmission(u, kind, fault) ==
    /\ GetUserState(user_states, u).state = TASK_SUBMISSION
    /\ Commit(u, handle_media_message([World(u) EXCEPT !.fault = fault], u,
                                      MediaMsg(kind, TRUE)))
    /\ UNCHANGED <<reg_conv, edit_conv>>

(* The process of the user bot stops and starts again: what it held in memory *)
(* is gone, the store is kept.                                                *)
Restart ==
    /\ user_data' = [u \in UserIds |-> EmptyCtx]
    /\ reg_conv' = [u \in UserIds |-> END]
    /\ edit_conv' = [u \in UserIds |-> END]
    /\ process' = [process EXCEPT !.user = main(environ)]
    /\ UNCHANGED <<store, now, buttons, admin_data, panels, reply, environ,
                   admin_ids>>

(* The process of the user bot is killed while a step of the registration *)
(* completes it, after save_user_state(IDLE, ...) and before              *)
(* update_user_registration, each a transaction of its own; the process   *)
(* then starts again.                                                     *)
CrashInCompletion(u, t) ==
    LET w == RegistrationStep([World(u) EXCEPT !.crash = "armed"], u,
                              TextMsg(t), reg_conv[u])
    IN
    /\ process.user = "polling"
    /\ reg_conv[u] \in {PARTICIPATION_TYPE, CHILDREN_INFO}
    /\ w.crash = "hit"
    /\ user_states' = w.user_states
    /\ offline_messages' = w.inbox.rows
    /\ seq' = [seq EXCEPT !.msg = w.inbox.next]
    /\ user_data' = [v \in UserIds |-> EmptyCtx]
    /\ reg_conv' = [v \in UserIds |-> END]
    /\ edit_conv' = [v \in UserIds |-> END]
    /\ process' = [process EXCEPT !.user = main(environ)]
    /\ UNCHANGED <<users, tasks, submissions, now, buttons, admin_data, panels,
                   reply, environ, admin_ids>>

Tick ==
    /\ now < MaxTime
    /\ now' = now + 1
    /\ UNCHANGED <<store, user_data, reg_conv, edit_conv, buttons, admin_data,
                   panels, reply, environ, admin_ids, process>>

-----------------------------------------------------------------------------
(* admin_bot.py *)

EDITING_TASK_DEADLINE == 15
EDITING_TASK_OPEN_DATE == 16

TaskTitles == {"observation", "cleanup"}
Times == 0..(MaxTime + 1)

_is_admin_anyone(a) == TRUE

_is_admin(a) ==
    \/ admin_ids.all
    \/ \E i \in DOMAIN admin_ids.ids : admin_ids.ids[i] = TelegramId(a)

AdminReply(a, by, kind) ==
    /\ process.admin = "polling"
    /\ reply' = Reply(a, by, IF _is_admin(a) THEN kind ELSE "access_denied", <<>>)
    /\ UNCHANGED <<environ, admin_ids, process>>

(* _confirm_create_task with the data the add-task dialogue collected:      *)
(* an opening date not before the dialogue, a deadline after it or none.    *)
ConfirmCreateTask(a, title, open_date, deadline) ==
    /\ seq.task <= MaxTasks
    /\ open_date >= now
    /\ deadline = NoDeadline \/ deadline > open_date
    /\ AdminReply(a, "_confirm_create_task", "task_created")
    /\ IF _is_admin(a)
       THEN /\ tasks' = (seq.task :> TaskRow(title, deadline, open_date <= now,
                                             open_date)) @@ tasks
            /\ seq' = [seq EXCEPT !.task = seq.task + 1]
       ELSE UNCHANGED <<tasks, seq>>
    /\ UNCHANGED <<users, user_states, submissions, offline_messages, now,
                   user_data, reg_conv, edit_conv, buttons, admin_data, panels>>

ToggleTaskStatus(a, task_id) ==
    /\ AdminReply(a, "_toggle_task_status",
                  IF task_id \in DOMAIN tasks THEN "toggled" ELSE "task_not_found")
    /\ tasks' = IF _is_admin(a) /\ task_id \in DOMAIN tasks
                THEN [tasks EXCEPT ![task_id].is_open = ~tasks[task_id].is_open]
                ELSE tasks
    /\ UNCHANGED <<users, user_states, submissions, offline_messages, seq, now,
                   user_data, reg_conv, edit_conv, buttons, admin_data, panels>>

(* a deletion that empties the table *)
Without_all(f, S) == [x \in {} |-> f[x]]

Without(f, S) == [x \in DOMAIN f \ S |-> f[x]]

(* DELETE FROM submissions WHERE task_id = ?; DELETE FROM tasks WHERE id = ?; *)
(* one connection, one commit.  fails: the connection raises, nothing is     *)
(* committed.                                                                 *)
ConfirmDeleteTask(a, task_id, fails) ==
    /\ AdminReply(a, "_confirm_delete_task",
                  IF fails THEN "delete_error" ELSE "task_deleted")
    /\ IF _is_admin(a) /\ ~fails
       THEN /\ submissions' =
                   Without(submissions,
                           {i \in DOMAIN submissions :
                               submissions[i].task_id = task_id})
            /\ tasks' = Without(tasks, {task_id})
       ELSE UNCHANGED <<submissions, tasks>>
    /\ UNCHANGED <<users, user_states, offline_messages, seq, now, user_data,
                   reg_conv, edit_conv, buttons, admin_data, panels>>

(* a status update that takes back the status it is asked to set again *)
SetStatus_toggling(subs, id, status) ==
    IF id \in DOMAIN subs
    THEN [subs EXCEPT ![id].status =
                         IF subs[id].status = status THEN "pending" ELSE status]
    ELSE subs

(* a status update that evaluates the deadline again *)
SetStatus_reevaluating(subs, id, status) ==
    IF id \in DOMAIN subs
    THEN [subs EXCEPT ![id].status = status,
                      ![id].is_on_time =
                          CheckSubmissionDeadline(tasks, subs[id].task_id, now)]
    ELSE subs

SetStatus(subs, id, status) ==
    IF id \in DOMAIN subs THEN [subs EXCEPT ![id].status = status] ELSE subs

(* The message p of the admin bot is edited: its buttons are now b *)
Shows(a, p, b) ==
    panels' = IF _is_admin(a) THEN [panels EXCEPT ![p] = b] ELSE panels

(* _handle_report_action: the report with its task (JOIN tasks); the two    *)
(* moderation buttons are under it only while it is pending.                *)
HandleReportAction(a, p, submission_id) ==
    LET found == /\ submission_id \in DOMAIN submissions
                 /\ submissions[submission_id].task_id \in DOMAIN tasks
    IN
    /\ submission_id < seq.sub
    /\ AdminReply(a, "_handle_report_action",
                  IF found THEN "report" ELSE "report_not_found")
    /\ Shows(a, p, IF found /\ submissions[submission_id].status = "pending"
                   THEN {<<"approve", submission_id>>, <<"reject", submission_id>>}
                   ELSE {})
    /\ UNCHANGED <<store, now, user_data, reg_conv, edit_conv, buttons,
                   admin_data>>

(* _approve_report: the button of message p; the message then shows the     *)
(* report again, which is pending no more.                                  *)
ApproveReport(a, p, submission_id) ==
    /\ <<"approve", submission_id>> \in panels[p]
    /\ AdminReply(a, "_approve_report", "approved")
    /\ submissions' = IF _is_admin(a)
                      THEN SetStatus(submissions, submission_id, "approved")
                      ELSE submissions
    /\ Shows(a, p, {})
    /\ UNCHANGED <<users, user_states, tasks, offline_messages, seq, now,
                   user_data, reg_conv, edit_conv, buttons, admin_data>>

RejectReport(a, p, submission_id) ==
    /\ <<"reject", submission_id>> \in panels[p]
    /\ AdminReply(a, "_reject_report", "rejected")
    /\ submissions' = IF _is_admin(a)
                      THEN SetStatus(submissions, submission_id, "rejected")
                      ELSE submissions
    /\ Shows(a, p, {})
    /\ UNCHANGED <<users, user_states, tasks, offline_messages, seq, now,
                   user_data, reg_conv, edit_conv, buttons, admin_data>>

(* The callback data of the two buttons under a potential report, as      *)
(* data.split('_') gives it, and int() of one of its parts                *)
Numerals == <<"1", "2", "3", "4", "5", "6", "7", "8", "9">>

MarkProcessedData(report_id) == <<"mark", "processed", Numerals[report_id]>>

DeletePotentialData(report_id) == <<"delete", "potential", Numerals[report_id]>>

IntToken(part) ==
    IF \E n \in DOMAIN Numerals : Numerals[n] = part
    THEN [ok |-> TRUE, val |-> CHOOSE n \in DOMAIN Numerals : Numerals[n] = part]
    ELSE [ok |-> FALSE, val |-> 0]

(* get_potential_reports: the unprocessed potential reports *)
GetPotentialReports(rows) ==
    {i \in DOMAIN rows :
        rows[i].message_type = "potential_report" /\ ~rows[i].processed}

(* _handle_potential_report: the entry with one button for each open task  *)
(* (the last five of them, which are all the tasks of the model)            *)
HandlePotentialReport(a, p, report_id) ==
    LET found == report_id \in GetPotentialReports(offline_messages) IN
    /\ report_id < seq.msg
    /\ AdminReply(a, "_handle_potential_report",
                  IF found THEN "potential_report" ELSE "potential_not_found")
    /\ Shows(a, p, IF found
                   THEN {<<"assign", report_id, t>> :
                            t \in {i \in DOMAIN tasks : tasks[i].is_open}}
                        \cup {<<"mark_processed", MarkProcessedData(report_id)>>,
                              <<"delete_potential",
                                DeletePotentialData(report_id)>>}
                   ELSE {})
    /\ UNCHANGED <<store, now, user_data, reg_conv, edit_conv, buttons,
                   admin_data>>

(* database.py mark_potential_report_as_submission(message_id, task_id):    *)
(* the promotion the store offers, which no handler of the two bots calls.  *)
(* One connection, one commit: the submission, approved, with the answer of *)
(* the evaluator, and the processed flag.  The result is the tables and the *)
(* value returned.                                                          *)
MarkPotentialReportAsSubmission(rows, subs, next_sub, ts, t, message_id, task_id) ==
    IF message_id \notin DOMAIN rows
    THEN [rows |-> rows, submissions |-> subs, next_sub |-> next_sub,
          ret |-> FALSE]
    ELSE LET data == rows[message_id].message_data IN
         [rows |-> [rows EXCEPT ![message_id].processed = TRUE],
          submissions |->
              (next_sub :> SubmissionRow(rows[message_id].user_id, task_id,
                               Get(data, "type", "text"),
                               Get(data, "content", <<>>),
                               Get(data, "file_id", NoneVal),
                               Get(data, "file_path", NoneVal),
                               t, "approved",
                               CheckSubmissionDeadline(ts, task_id, t)))
              @@ subs,
          next_sub |-> next_sub + 1,
          ret |-> TRUE]

(* A call of the promotion of the store; fails: the connection raises and   *)
(* rolls back.                                                              *)
PromoteEntry(message_id, task_id, fails) ==
    LET r == MarkPotentialReportAsSubmission(offline_messages, submissions,
                 seq.sub, tasks, now, message_id, task_id)
    IN
    /\ seq.sub <= MaxSubs
    /\ IF fails
       THEN UNCHANGED <<submissions, offline_messages, seq>>
       ELSE /\ submissions' = r.submissions
            /\ offline_messages' = r.rows
            /\ seq' = [seq EXCEPT !.sub = r.next_sub]
    /\ UNCHANGED <<users, user_states, tasks, now, user_data, reg_conv,
                   edit_conv, buttons, admin_data, panels, reply, environ,
                   admin_ids, process>>

PromotionOutcomes == {"ok", "insert_fails", "update_fails"}

(* _assign_potential_to_task: the button of message p.  The submission is   *)
(* inserted and committed on one connection, the entry is marked processed  *)
(* and committed on the next one; outcome names the statement that raises,   *)
(* if one does.                                                              *)
AssignPotentialToTask(a, p, report_id, task_id, outcome) ==
    LET entry == offline_messages[report_id]
        inserted ==
            (seq.sub :> SubmissionRow(entry.user_id, task_id, "text",
                            Get(entry.message_data, "content", "no_content"),
                            Get(entry.message_data, "file_id", NoneVal),
                            NoneVal, now, "pending", TRUE))
            @@ submissions
    IN
    /\ <<"assign", report_id, task_id>> \in panels[p]
    /\ seq.sub <= MaxSubs
    /\ IF ~_is_admin(a)
       THEN /\ AdminReply(a, "_assign_potential_to_task", "assigned")
            /\ UNCHANGED <<submissions, offline_messages, seq, panels>>
       ELSE IF task_id \notin DOMAIN tasks
       THEN /\ AdminReply(a, "_assign_potential_to_task", "task_not_found")
            /\ Shows(a, p, {})
            /\ UNCHANGED <<submissions, offline_messages, seq>>
       ELSE IF report_id \notin DOMAIN offline_messages
       THEN /\ AdminReply(a, "_assign_potential_to_task", "potential_not_found")
            /\ Shows(a, p, {})
            /\ UNCHANGED <<submissions, offline_messages, seq>>
       ELSE IF outcome = "insert_fails"
       THEN /\ AdminReply(a, "_assign_potential_to_task", "assign_error")
            /\ UNCHANGED <<submissions, offline_messages, seq, panels>>
       ELSE IF outcome = "update_fails"
       THEN /\ AdminReply(a, "_assign_potential_to_task", "assign_error")
            /\ submissions' = inserted
            /\ seq' = [seq EXCEPT !.sub = seq.sub + 1]
            /\ UNCHANGED <<offline_messages, panels>>
       ELSE /\ AdminReply(a, "_assign_potential_to_task", "assigned")
            /\ submissions' = inserted
            /\ seq' = [seq EXCEPT !.sub = seq.sub + 1]
            /\ offline_messages' =
                   [offline_messages EXCEPT ![report_id].processed = TRUE]
            /\ Shows(a, p, {})
    /\ UNCHANGED <<users, user_states, tasks, now, user_data, reg_conv,
                   edit_conv, buttons, admin_data>>

(* _mark_potential_processed: the button of message p.  The id is read    *)
(* as int(data.split('_')[1]); when that raises, nothing is answered and  *)
(* nothing is written.                                                    *)
MarkPotentialProcessed(a, p, report_id) ==
    LET data == MarkProcessedData(report_id)
        id == IntToken(data[2])
    IN
    /\ <<"mark_processed", data>> \in panels[p]
    /\ IF ~_is_admin(a)
       THEN /\ AdminReply(a, "_mark_potential_processed", "marked_processed")
            /\ UNCHANGED <<offline_messages, panels>>
       ELSE IF ~id.ok
       THEN /\ AdminReply(a, "_mark_potential_processed", "none")
            /\ UNCHANGED <<offline_messages, panels>>
       ELSE /\ AdminReply(a, "_mark_potential_processed", "marked_processed")
            /\ offline_messages' =
                   MarkOfflineMessageProcessed(offline_messages, id.val)
            /\ Shows(a, p, {})
    /\ UNCHANGED <<users, user_states, tasks, submissions, seq, now, user_data,
                   reg_conv, edit_conv, buttons, admin_data>>

(* _delete_potential_report: the button of message p, its id read the     *)
(* same way                                                               *)
DeletePotentialReport(a, p, report_id) ==
    LET data == DeletePotentialData(report_id)
        id == IntToken(data[2])
    IN
    /\ <<"delete_potential", data>> \in panels[p]
    /\ IF ~_is_admin(a)
       THEN /\ AdminReply(a, "_delete_potential_report", "potential_deleted")
            /\ UNCHANGED <<offline_messages, panels>>
       ELSE IF ~id.ok
       THEN /\ AdminReply(a, "_delete_potential_report", "none")
            /\ UNCHANGED <<offline_messages, panels>>
       ELSE IF id.val \notin DOMAIN offline_messages
       THEN /\ AdminReply(a, "_delete_potential_report", "potential_not_found")
            /\ Shows(a, p, {})
            /\ UNCHANGED offline_messages
       ELSE /\ AdminReply(a, "_delete_potential_report", "potential_deleted")
            /\ offline_messages' = Without(offline_messages, {id.val})
            /\ Shows(a, p, {})
    /\ UNCHANGED <<users, user_states, tasks, submissions, seq, now, user_data,
                   reg_conv, edit_conv, buttons, admin_data>>

(* _start_edit_deadline and _start_edit_open_date *)
StartEdit(a, task_id, editing_state) ==
    /\ AdminReply(a, "_start_edit",
                  IF task_id \in DOMAIN tasks THEN "ask_date" ELSE "task_not_found")
    /\ admin_data' =
          IF ~_is_admin(a) THEN admin_data
          ELSE IF task_id \in DOMAIN tasks
          THEN ("editing_task_id" :> task_id)
               @@ ("editing_state" :> editing_state) @@ admin_data
          ELSE ("editing_task_id" :> task_id) @@ admin_data
    /\ UNCHANGED <<store, now, user_data, reg_conv, edit_conv, buttons, panels>>

(* handle_edit_message: the text is a date d, or NoDeadline for "нет" *)
HandleEditMessage(a, d) ==
    LET editing_state == Get(admin_data, "editing_state", 0)
        task_id == Get(admin_data, "editing_task_id", 0)
        open_date == IF task_id \in DOMAIN tasks THEN tasks[task_id].open_date
                     ELSE NoDeadline
    IN
    /\ process.admin = "polling"
    /\ IF ~_is_admin(a)
       THEN /\ reply' = Reply(a, "handle_edit_message", "access_denied", <<>>)
            /\ UNCHANGED <<tasks, admin_data>>
       ELSE
       /\ editing_state \in {EDITING_TASK_DEADLINE, EDITING_TASK_OPEN_DATE}
       /\ IF editing_state = EDITING_TASK_DEADLINE
          THEN IF d # NoDeadline
                  /\ (d <= now \/ (open_date # NoDeadline /\ d <= open_date))
               THEN /\ reply' = Reply(a, "handle_edit_deadline", "bad_deadline",
                                      <<>>)
                    /\ UNCHANGED <<tasks, admin_data>>
               ELSE /\ tasks' = IF task_id \in DOMAIN tasks
                                THEN [tasks EXCEPT ![task_id].deadline = d]
                                ELSE tasks
                    /\ admin_data' = EmptyCtx
                    /\ reply' = Reply(a, "handle_edit_deadline",
                                      "deadline_changed", <<>>)
          ELSE IF d = NoDeadline \/ d < now
               THEN /\ reply' = Reply(a, "handle_edit_open_date", "bad_open_date",
                                      <<>>)
                    /\ UNCHANGED <<tasks, admin_data>>
               ELSE /\ tasks' = IF task_id \in DOMAIN tasks
                                THEN [tasks EXCEPT ![task_id].open_date = d,
                                                   ![task_id].is_open = (d <= now)]
                                ELSE tasks
                    /\ admin_data' = EmptyCtx
                    /\ reply' = Reply(a, "handle_edit_open_date",
                                      "open_date_changed", <<>>)
    /\ UNCHANGED <<users, user_states, submissions, offline_messages, seq, now,
                   user_data, reg_conv, edit_conv, buttons, panels, environ,
                   admin_ids, process>>

(* _perform_log_cleanup.  received_date and last_updated are read by this  *)
(* operation only: the entries older than 30 days are those before        *)
(* first_recent, the states older than 7 days are old_states.  Table      *)
(* support_requests, which the UPDATE archives, is written by no handler  *)
(* of the two bots and has no rows.                                       *)
(* The three DML statements, were they committed: *)
PerformLogCleanup_committing(rows, states, first_recent, old_states) ==
    [rows |-> Without(rows,
                  {i \in DOMAIN rows :
                      /\ rows[i].processed
                      /\ \/ rows[i].message_type = "potential_report"
                         \/ i < first_recent}),
     states |-> Without(states, old_states),
     raised |-> FALSE]

(* The statements run in the transaction the first DELETE opens; VACUUM,  *)
(* executed before the commit, raises "cannot VACUUM from within a        *)
(* transaction", and the connection rolls the transaction back.           *)
PerformLogCleanup(rows, states, first_recent, old_states) ==
    LET in_transaction == TRUE
        tentative == PerformLogCleanup_committing(rows, states, first_recent,
                                                  old_states)
    IN IF in_transaction
       THEN [rows |-> rows, states |-> states, raised |-> TRUE]
       ELSE tentative

(* _confirm_clear_logs *)
ConfirmClearLogs(a, first_recent, old_states) ==
    LET cleaned == PerformLogCleanup(offline_messages, user_states,
                                     first_recent, old_states)
    IN
    /\ AdminReply(a, "_confirm_clear_logs",
                  IF cleaned.raised THEN "cleanup_error" ELSE "cleanup_done")
    /\ offline_messages' = IF _is_admin(a) THEN cleaned.rows ELSE offline_messages
    /\ user_states' = IF _is_admin(a) THEN cleaned.states ELSE user_states
    /\ UNCHANGED <<users, tasks, submissions, seq, now, user_data, reg_conv,
                   edit_conv, buttons, admin_data, panels>>

CallbackData ==
    {<<"main_menu">>, <<"submit_tasks">>} \cup {<<"submit_task", i>> : i \in 1..MaxTasks}

-----------------------------------------------------------------------------
(* Specifications.  Each one takes every update from the input sets named  *)
(* in it.                                                                   *)

(* Registration and profile edit, with restarts *)
RegTexts ==
    {TXT_NAME, TXT_PADDED, BTN_INDIVIDUAL, BTN_FAMILY, TXT_NO, BTN_EDIT_FIRST_NAME}

NextRegistration ==
    /\ seq.msg < MaxMsgs
    /\ \/ \E u \in UserIds : StartCommand(u)
       \/ \E u \in UserIds, t \in RegTexts : TextMessage(u, t, FALSE)
       \/ Restart

SpecRegistration == Init /\ [][NextRegistration]_vars

(* The registration, the process being killed at any completion and the  *)
(* account being renamed at any time                                      *)
NextCrash ==
    /\ seq.msg < MaxMsgs
    /\ \/ \E u \in UserIds : StartCommand(u)
       \/ \E u \in UserIds : StartFromRenamedAccount(u)
       \/ \E u \in UserIds, t \in RegTexts : TextMessage(u, t, FALSE)
       \/ \E u \in UserIds, t \in RegTexts : CrashInCompletion(u, t)

SpecCrash == Init /\ [][NextCrash]_vars

(* The submission step, up to the first submission *)
SubTexts == {TXT_REPORT, BTN_EDIT_FIRST_NAME}

NextSubmission ==
    /\ seq.sub = 1
    /\ seq.msg < MaxMsgs
    /\ \/ \E u \in UserIds : StartCommand(u)
       \/ \E u \in UserIds, t \in SubTexts, f \in BOOLEAN : TextMessage(u, t, f)
       \/ \E u \in UserIds, d \in CallbackData : CallbackQuery(u, d)
       \/ \E u \in UserIds, k \in MediaKinds, dl \in BOOLEAN, f \in BOOLEAN :
             MediaMessage(u, k, dl, f)
       \/ Restart
       \/ Tick

SpecSubmission == InitRegistered /\ [][NextSubmission]_vars

(* The submission step when the store or the network fails after the      *)
(* insert                                                                  *)
NextFaults ==
    /\ seq.sub < MaxSubs
    /\ seq.msg < MaxMsgs
    /\ \/ \E u \in UserIds, d \in CallbackData : CallbackQuery(u, d)
       \/ \E u \in UserIds, k \in MediaKinds, f \in BOOLEAN :
             MediaMessage(u, k, TRUE, f)
       \/ \E u \in UserIds, k \in MediaKinds, fault \in SubmissionFaults :
             FaultInSubmission(u, k, fault)
       \/ \E u \in UserIds : StartCommand(u)
       \/ Tick

SpecFaults == InitRegistered /\ [][NextFaults]_vars

(* Submissions, their moderation and the dates of their tasks *)
EditDates == {NoDeadline, 0, MaxTime + 1}
EditedTasks == {1}

NextModeration ==
    \/ \E u \in UserIds, d \in CallbackData \ {<<"main_menu">>} : CallbackQuery(u, d)
    \/ \E u \in UserIds :
          /\ GetUserState(user_states, u).state = TASK_SUBMISSION
          /\ seq.sub < MaxSubs
          /\ MediaMessage(u, "photo", TRUE, FALSE)
    \/ Tick
    \/ \E i \in EditedTasks : ToggleTaskStatus("admin", i)
    \/ \E p \in Panels, i \in 1..MaxSubs : HandleReportAction("admin", p, i)
    \/ \E a \in AdminActors, p \in Panels, i \in 1..MaxSubs :
          ApproveReport(a, p, i)
    \/ \E p \in Panels, i \in 1..MaxSubs : RejectReport("admin", p, i)
    \/ \E i \in EditedTasks, e \in {EDITING_TASK_DEADLINE, EDITING_TASK_OPEN_DATE} :
          StartEdit("admin", i, e)
    \/ \E d \in EditDates : HandleEditMessage("admin", d)
    \/ ConfirmClearLogs("admin", 1, {})

SpecModeration == InitRegistered /\ [][NextModeration]_vars

(* The updates of the admin bot that a sends: /start, the buttons that      *)
(* handle_callback routes and the texts of handle_edit_message              *)
AdminUpdate(a) ==
    \/ \E i \in EditedTasks : ToggleTaskStatus(a, i)
    \/ \E i \in EditedTasks : ConfirmDeleteTask(a, i, FALSE)
    \/ \E p \in {"p1"}, i \in 1..MaxSubs : HandleReportAction(a, p, i)
    \/ \E p \in {"p1"}, i \in 1..MaxSubs : ApproveReport(a, p, i)
    \/ \E p \in {"p1"}, i \in 1..MaxSubs : RejectReport(a, p, i)
    \/ \E p \in {"p1"}, r \in 1..MaxMsgs : HandlePotentialReport(a, p, r)
    \/ \E p \in {"p1"}, r \in 1..MaxMsgs, t \in 1..MaxTasks :
          AssignPotentialToTask(a, p, r, t, "ok")
    \/ \E p \in {"p1"}, r \in 1..MaxMsgs : MarkPotentialProcessed(a, p, r)
    \/ \E p \in {"p1"}, r \in 1..MaxMsgs : DeletePotentialReport(a, p, r)
    \/ \E i \in EditedTasks : StartEdit(a, i, EDITING_TASK_DEADLINE)
    \/ \E d \in EditDates : HandleEditMessage(a, d)
    \/ ConfirmClearLogs(a, 1, {})

(* The two bots side by side under three allow-lists: the id of one of    *)
(* the two who write to the admin bot, an id of neither, and none, with    *)
(* which the admin bot does not start                                      *)
InitAccess ==
    \E ids \in {<<"1">>, <<"1", "1">>, <<>>} :
        LET w == RegisteredWorld(CHOOSE u \in UserIds : TRUE) IN
        /\ users = w.users
        /\ user_states = w.user_states
        /\ tasks = w.tasks
        /\ submissions = w.submissions
        /\ offline_messages = w.inbox.rows
        /\ seq = [task |-> 3, sub |-> w.next_sub, msg |-> w.inbox.next]
        /\ now = w.now
        /\ user_data = [u \in UserIds |-> w.ud]
        /\ reg_conv = [u \in UserIds |-> w.ret]
        /\ edit_conv = [u \in UserIds |-> END]
        /\ buttons = [u \in UserIds |-> w.buttons]
        /\ admin_data = EmptyCtx
        /\ panels = [p \in Panels |-> {}]
        /\ reply = w.reply
        /\ environ = ("BOT_TOKEN" :> TOKEN) @@ ("ADMIN_BOT_TOKEN" :> TOKEN)
                     @@ ("ADMIN_IDS" :> ids)
        /\ admin_ids = _get_admin_ids(environ)
        /\ process = [user |-> main(environ), admin |-> admin_main(environ)]

NextAccess ==
    \/ \E u \in UserIds, d \in {<<"submit_tasks">>, <<"submit_task", 1>>} :
          CallbackQuery(u, d)
    \/ \E u \in UserIds :
          /\ seq.sub < MaxSubs
          /\ seq.msg < MaxMsgs
          /\ MediaMessage(u, "photo", TRUE, FALSE)
    \/ \E a \in AdminActors : AdminUpdate(a)

SpecAccess == InitAccess /\ [][NextAccess]_vars

(* Where submissions come from: the updates of a user and the promotions   *)
(* of an admin                                                             *)
NextOrigins ==
    \/ \E u \in UserIds, d \in CallbackData : CallbackQuery(u, d)
    \/ \E u \in UserIds :
          /\ seq.sub < MaxSubs
          /\ seq.msg < MaxMsgs
          /\ \/ MediaMessage(u, "photo", TRUE, FALSE)
             \/ TextMessage(u, TXT_REPORT, FALSE)
    \/ \E p \in Panels, r \in 1..MaxMsgs : HandlePotentialReport("admin", p, r)
    \/ \E p \in Panels, r \in 1..MaxMsgs, t \in 1..MaxTasks :
          AssignPotentialToTask("admin", p, r, t, "ok")

SpecOrigins == InitRegistered /\ [][NextOrigins]_vars

(* Messages outside the conversations: users before and after registration *)
TriageTexts == {TXT_NO, TXT_TEN, TXT_REPORT}

NextInbox ==
    /\ seq.sub = 1
    /\ seq.msg < MaxMsgs
    /\ \/ \E u \in UserIds : StartCommand(u)
       \/ \E u \in UserIds, t \in TriageTexts : TextMessage(u, t, FALSE)
       \/ \E u \in UserIds, k \in MediaKinds, dl \in BOOLEAN :
             MediaMessage(u, k, dl, FALSE)
       \/ \E u \in UserIds, d \in CallbackData : CallbackQuery(u, d)
       \/ Restart

SpecInbox == (Init \/ InitRegistered) /\ [][NextInbox]_vars

(* Potential reports and their promotion to submissions *)
NextPromotion ==
    \/ \E u \in UserIds :
          /\ GetUserState(user_states, u).state # TASK_SUBMISSION
          /\ seq.msg <= MaxMsgs
          /\ MediaMessage(u, "photo", TRUE, FALSE)
    \/ Tick
    \/ \E p \in Panels, r \in 1..MaxMsgs : HandlePotentialReport("admin", p, r)
    \/ \E a \in AdminActors, p \in Panels, r \in 1..MaxMsgs, t \in 1..MaxTasks,
          o \in PromotionOutcomes : AssignPotentialToTask(a, p, r, t, o)
    \/ \E t \in 1..MaxTasks : ConfirmDeleteTask("admin", t, FALSE)

SpecPromotion == InitRegistered /\ [][NextPromotion]_vars

(* Potential reports, their promotion and the two buttons that dispose   *)
(* of them                                                                *)
NextDisposition ==
    \/ \E u \in UserIds :
          /\ GetUserState(user_states, u).state # TASK_SUBMISSION
          /\ seq.msg < MaxMsgs
          /\ MediaMessage(u, "photo", TRUE, FALSE)
    \/ \E p \in Panels, r \in 1..MaxMsgs : HandlePotentialReport("admin", p, r)
    \/ \E p \in Panels, r \in 1..MaxMsgs, t \in 1..MaxTasks :
          AssignPotentialToTask("admin", p, r, t, "ok")
    \/ \E a \in AdminActors, p \in Panels, r \in 1..MaxMsgs :
          MarkPotentialProcessed(a, p, r)
    \/ \E a \in AdminActors, p \in Panels, r \in 1..MaxMsgs :
          DeletePotentialReport(a, p, r)

SpecDisposition == InitRegistered /\ [][NextDisposition]_vars

(* The cleanup of the logs among messages, submissions and conversations *)
NextRetention ==
    \/ /\ seq.msg < MaxMsgs
       /\ \/ \E u \in UserIds : StartCommand(u)
          \/ \E u \in UserIds : MediaMessage(u, "photo", TRUE, FALSE)
    \/ \E u \in UserIds, d \in CallbackData : CallbackQuery(u, d)
    \/ \E a \in AdminActors, first_recent \in 1..(MaxMsgs + 1),
          old_states \in SUBSET UserIds :
          ConfirmClearLogs(a, first_recent, old_states)

SpecRetention == InitRegistered /\ [][NextRetention]_vars

(* The promotion of the store, called on its own *)
NextStore ==
    \/ \E u \in UserIds :
          /\ GetUserState(user_states, u).state # TASK_SUBMISSION
          /\ seq.msg <= MaxMsgs
          /\ MediaMessage(u, "photo", TRUE, FALSE)
    \/ Tick
    \/ \E r \in 1..MaxMsgs, t \in 1..MaxTasks, f \in BOOLEAN : PromoteEntry(r, t, f)
    \/ \E t \in 1..MaxTasks : ConfirmDeleteTask("admin", t, FALSE)

SpecStore == InitRegistered /\ [][NextStore]_vars

(* Submissions and the deletion of their tasks *)
NextDeletion ==
    \/ \E u \in UserIds, d \in CallbackData : CallbackQuery(u, d)
    \/ \E u \in UserIds, k \in MediaKinds :
          /\ GetUserState(user_states, u).state = TASK_SUBMISSION
          /\ MediaMessage(u, k, TRUE, FALSE)
    \/ \E a \in AdminActors, i \in 1..MaxTasks, f \in BOOLEAN :
          ConfirmDeleteTask(a, i, f)
    \/ \E i \in 1..MaxSubs : HandleReportAction("admin", "p1", i)
    \/ \E a \in AdminActors, i \in 1..MaxSubs : ApproveReport(a, "p1", i)

SpecDeletion == InitRegistered /\ [][NextDeletion]_vars

(* The two processes from their start, in any environment *)
EnvStrings == UNION {[1..n -> EnvChars] : n \in 0..MaxEnvLen}

Environs ==
    {a @@ b @@ c @@ d :
        a \in {<<>>} \cup {"BOT_TOKEN" :> v : v \in {<<>>, TOKEN}},
        b \in {<<>>} \cup {"ADMIN_BOT_TOKEN" :> v : v \in {<<>>, TOKEN}},
        c \in {<<>>} \cup {"ADMIN_IDS" :> v : v \in EnvStrings},
        d \in {<<>>, "ADMIN_ID" :> <<"1">>}}

InitStartup ==
    /\ users = <<>>
    /\ user_states = <<>>
    /\ tasks = CreateWeeklyTasks
    /\ submissions = <<>>
    /\ offline_messages = <<>>
    /\ seq = [task |-> 3, sub |-> 1, msg |-> 1]
    /\ now = 0
    /\ user_data = [u \in UserIds |-> EmptyCtx]
    /\ reg_conv = [u \in UserIds |-> END]
    /\ edit_conv = [u \in UserIds |-> END]
    /\ buttons = [u \in UserIds |-> {}]
    /\ admin_data = EmptyCtx
    /\ panels = [p \in Panels |-> {}]
    /\ reply = NoReply
    /\ environ \in Environs
    /\ admin_ids = [all |-> FALSE, ids |-> <<>>]
    /\ process = [user |-> "new", admin |-> "new"]

(* python bot.py, python admin_bot.py: main() and, when it goes on, the   *)
(* construction of the bot                                                *)
RunMain(bot) ==
    /\ process[bot] = "new"
    /\ process' = [process EXCEPT ![bot] = IF bot = "user" THEN main(environ)
                                           ELSE admin_main(environ)]
    /\ admin_ids' = IF bot = "admin" /\ admin_main(environ) = "polling"
                    THEN _get_admin_ids(environ)
                    ELSE admin_ids
    /\ UNCHANGED <<store, now, user_data, reg_conv, edit_conv, buttons,
                   admin_data, panels, reply, environ>>

NextStartup ==
    \/ \E bot \in {"user", "admin"} : RunMain(bot)
    \/ \E u \in UserIds : seq.msg < 3 /\ StartCommand(u)
    \/ \E a \in AdminActors, t \in DOMAIN tasks : ToggleTaskStatus(a, t)

SpecStartup == InitStartup /\ [][NextStartup]_vars

-----------------------------------------------------------------------------
(* Properties *)

Persisted(u) == GetUserState(user_states, u)

(* The prompt of a step, by the kind of the reply that renders it *)
PromptOf(step) ==
    CASE step = REGISTRATION_LAST_NAME -> "ask_last_name"
      [] step = REGISTRATION_FIRST_NAME -> "ask_first_name"
      [] step = PARTICIPATION_TYPE -> "ask_participation_type"
      [] step = FAMILY_MEMBERS_COUNT -> "ask_family_members_count"
      [] step = CHILDREN_INFO -> "ask_children_info"
      [] step = TASK_SUBMISSION -> "ask_report"
      [] step = EDIT_FIRST_NAME -> "ask_new_first_name"
      [] step = EDIT_LAST_NAME -> "ask_new_last_name"
      [] OTHER -> "none"

(* C1: whenever /start is handled for a user whose persisted step is not  *)
(* idle, the persisted step and its context stay as they were, the        *)
(* context is restored into the working memory and the reply is the       *)
(* prompt of that step.                                                   *)
C1_StartResumes ==
    [][\A u \in UserIds :
        (StartCommand(u) /\ Persisted(u).state # IDLE)
        => /\ GetUserState(user_states', u) = Persisted(u)
           /\ \A k \in DOMAIN Persisted(u).context :
                 Has(user_data'[u], k)
                 /\ user_data'[u][k] = Persisted(u).context[k]
           /\ reply'.to = u
           /\ reply'.kind = PromptOf(Persisted(u).state)]_vars

(* The outcome of /start for u when the working memory holds ud *)
StartWith(u, ud) == start([World(u) EXCEPT !.ud = ud], u, TextMsg(CMD_START))

(* C2: in every reachable state, /start chooses the same step, the same   *)
(* prompt and the same persisted state whether the process has restarted  *)
(* (working memory empty) or not (working memory as it is).               *)
C2_ResumeAfterRestart ==
    \A u \in UserIds :
        LET kept == StartWith(u, user_data[u])
            lost == StartWith(u, EmptyCtx)
        IN /\ kept.ret = lost.ret
           /\ kept.raised = lost.raised
           /\ kept.reply.kind = lost.reply.kind
           /\ kept.reply.args = lost.reply.args
           /\ kept.user_states = lost.user_states

(* C2 witness: a user in the middle of registration whose working memory  *)
(* was lost in a restart, and from whose persisted step /start resumes.   *)
C2_Witness ==
    \E u \in UserIds :
        /\ Persisted(u).state = PARTICIPATION_TYPE
        /\ user_data[u] = EmptyCtx
        /\ reg_conv[u] = END
        /\ StartWith(u, EmptyCtx).reply.kind = "ask_participation_type"
        /\ StartWith(u, EmptyCtx).reply.args = <<TXT_NAME, TXT_NAME>>

(* The validating step that handles a text of u, 0 if none does *)
ValidatingStep(u) ==
    IF reg_conv[u] \in RegistrationStates \ {CHILDREN_INFO} THEN reg_conv[u]
    ELSE IF reg_conv[u] \notin RegistrationStates
            /\ edit_conv[u] \in {EDIT_FIRST_NAME, EDIT_LAST_NAME}
    THEN edit_conv[u]
    ELSE 0

(* What the steps accept: names of two characters or more after trimming, *)
(* one of the two offered options, an integer in 1..10.                    *)
InvalidFor(step, t) ==
    CASE step \in {REGISTRATION_LAST_NAME, REGISTRATION_FIRST_NAME,
                   EDIT_FIRST_NAME, EDIT_LAST_NAME} -> Len(Strip(t)) < 2
      [] step = PARTICIPATION_TYPE -> t \notin {BTN_INDIVIDUAL, BTN_FAMILY}
      [] step = FAMILY_MEMBERS_COUNT ->
            ~(IsInt(Strip(t)) /\ IntOf(Strip(t)) \in 1..10)
      [] OTHER -> FALSE

CorrectionOf(step) ==
    CASE step \in {REGISTRATION_LAST_NAME, EDIT_LAST_NAME} -> "invalid_last_name"
      [] step \in {REGISTRATION_FIRST_NAME, EDIT_FIRST_NAME} -> "invalid_first_name"
      [] step = PARTICIPATION_TYPE -> "invalid_participation_type"
      [] step = FAMILY_MEMBERS_COUNT -> "invalid_family_members_count"
      [] OTHER -> "none"

(* C3: in every reachable state and for every text that is invalid for   *)
(* the validating step that handles it, handling the text leaves the      *)
(* persisted step identifier and the conversation in the step, and the    *)
(* reply is the step's correction.                                        *)
C3_InvalidInputStays ==
    \A u \in UserIds, t \in RegTexts :
        InvalidFor(ValidatingStep(u), t)
        => LET d == TextDispatch(u, t, FALSE) IN
           /\ GetUserState(d.w.user_states, u).state = Persisted(u).state
           /\ d.reg[u] = reg_conv[u]
           /\ d.edit[u] = edit_conv[u]
           /\ d.w.reply.to = u
           /\ d.w.reply.kind = CorrectionOf(ValidatingStep(u))

(* C3 witness: the household size step has just rejected an input *)
C3_Witness ==
    \E u \in UserIds :
        /\ reg_conv[u] = FAMILY_MEMBERS_COUNT
        /\ Persisted(u).state = FAMILY_MEMBERS_COUNT
        /\ reply.kind = "invalid_family_members_count"

Registers(u) == ~IsUserRegistered(users, u) /\ IsUserRegistered(users', u)

(* What the steps of the registration conversation do with a text t of a  *)
(* user who is not registered                                              *)
BranchesOf(u, t) ==
    LET d == TextDispatch(u, t, FALSE)
        registered == IsUserRegistered(d.w.users, u)
    IN /\ (reg_conv[u] = PARTICIPATION_TYPE /\ t = BTN_INDIVIDUAL) => registered
       /\ (reg_conv[u] = PARTICIPATION_TYPE /\ t = BTN_FAMILY)
          => ~registered /\ d.reg[u] = FAMILY_MEMBERS_COUNT
       /\ reg_conv[u] = FAMILY_MEMBERS_COUNT
          => /\ ~registered
             /\ d.reg[u] = IF InvalidFor(FAMILY_MEMBERS_COUNT, t)
                           THEN FAMILY_MEMBERS_COUNT ELSE CHILDREN_INFO
       /\ reg_conv[u] = CHILDREN_INFO => registered

(* C4: the choice of individual at the participation step registers the   *)
(* user at once; the choice of family leads to the household size step,   *)
(* that step registers nobody and leads only to the children step, and    *)
(* the children step registers; and no step of the system registers a     *)
(* user except the participation step, as individual, and the children    *)
(* step, as family.                                                       *)
C4_Branches ==
    /\ [](\A u \in UserIds, t \in RegTexts :
             ~IsUserRegistered(users, u) => BranchesOf(u, t))
    /\ [][\A u \in UserIds :
            Registers(u)
            => /\ reply'.by = "_complete_registration"
               /\ reg_conv'[u] = END
               /\ \/ /\ reg_conv[u] = PARTICIPATION_TYPE
                     /\ users'[u].participation_type = "individual"
                  \/ /\ reg_conv[u] = CHILDREN_INFO
                     /\ users'[u].participation_type = "family"]_vars

(* C4 witness: a user registered as a family of three *)
C4_Witness ==
    \E u \in UserIds :
        /\ IsUserRegistered(users, u)
        /\ users[u].participation_type = "family"
        /\ users[u].family_members_count = 3
        /\ reply.kind = "congratulations"

(* C5: whenever a step registers a user, the user's row holds the names,  *)
(* the participation type, the household size and the children info       *)
(* collected up to and by that step, and the persisted state is idle with *)
(* an empty context.                                                      *)
C5_CompletionClears ==
    [][\A u \in UserIds :
        Registers(u)
        => LET c == Persisted(u).context
               family == reg_conv[u] = CHILDREN_INFO
           IN /\ users'[u].first_name = c["first_name"]
              /\ users'[u].last_name = c["last_name"]
              /\ users'[u].participation_type =
                    IF family THEN "family" ELSE "individual"
              /\ users'[u].family_members_count =
                    IF family THEN c["family_members_count"] ELSE 1
              /\ family => \E t \in RegTexts :
                              users'[u].children_info =
                                  IF Strip(t) # TXT_NO THEN Strip(t) ELSE NoneVal
              /\ ~family => users'[u].children_info = NoneVal
              /\ GetUserState(user_states', u) = StateRow(IDLE, EmptyCtx)
              /\ user_data'[u] = EmptyCtx]_vars

(* C5 witness: a user has just registered under two different names *)
C5_Witness ==
    \E u \in UserIds :
        /\ IsUserRegistered(users, u)
        /\ users[u].first_name = TXT_NO
        /\ users[u].last_name = TXT_NAME
        /\ Persisted(u) = StateRow(IDLE, EmptyCtx)
        /\ reply.kind = "congratulations"

(* The world has one more submission than the store, of this kind, for u  *)
(* and the task selected in the persisted context, pending and evaluated  *)
(* against the deadline now, and the persisted state of u is idle.        *)
Submitted(u, w, kind) ==
    LET tid == Persisted(u).context["selected_task_id"] IN
    /\ DOMAIN w.submissions = DOMAIN submissions \cup {seq.sub}
    /\ \A i \in DOMAIN submissions : w.submissions[i] = submissions[i]
    /\ w.submissions[seq.sub].user_id = u
    /\ w.submissions[seq.sub].task_id = tid
    /\ w.submissions[seq.sub].submission_type = kind
    /\ w.submissions[seq.sub].status = "pending"
    /\ w.submissions[seq.sub].is_on_time = CheckSubmissionDeadline(tasks, tid, now)
    /\ GetUserState(w.user_states, u) = StateRow(IDLE, EmptyCtx)

InSubmissionStep(u) ==
    /\ Persisted(u).state = TASK_SUBMISSION
    /\ Has(Persisted(u).context, "selected_task_id")

(* C6: in every reachable state in which the persisted step of a user is  *)
(* TASK_SUBMISSION with a selected task, a report text, a photo, a video  *)
(* or a document of the user inserts exactly one submission of that kind  *)
(* for the user and the task, pending and on time as the evaluator says,  *)
(* and leaves the persisted state idle with an empty context.             *)
C6_SubmissionStep ==
    \A u \in UserIds :
        InSubmissionStep(u)
        => /\ Submitted(u, TextDispatch(u, TXT_REPORT, FALSE).w, "text")
           /\ \A k \in MediaKinds, dl \in BOOLEAN :
                 Submitted(u, handle_media_message(World(u), u, MediaMsg(k, dl)), k)

(* The same with no profile edit conversation of the user open *)
C6_WithoutOpenEdit ==
    \A u \in UserIds :
        (InSubmissionStep(u) /\ edit_conv[u] = END)
        => /\ Submitted(u, TextDispatch(u, TXT_REPORT, FALSE).w, "text")
           /\ \A k \in MediaKinds, dl \in BOOLEAN :
                 Submitted(u, handle_media_message(World(u), u, MediaMsg(k, dl)), k)

(* The insert of the submission failed: no submission more, the persisted *)
(* step is TASK_SUBMISSION with the task selected before, and the reply   *)
(* tells the user the report was kept.                                    *)
KeptForRetry(u, w) ==
    /\ w.submissions = submissions
    /\ GetUserState(w.user_states, u).state = TASK_SUBMISSION
    /\ Has(GetUserState(w.user_states, u).context, "selected_task_id")
    /\ GetUserState(w.user_states, u).context["selected_task_id"]
          = Persisted(u).context["selected_task_id"]
    /\ w.reply.to = u
    /\ w.reply.kind \in {"submission_error_saved", "error_message_saved"}

(* C7: in every reachable state in which the persisted step of a user is  *)
(* TASK_SUBMISSION with a selected task, a report of the user whose       *)
(* insert fails creates no submission, leaves the persisted step and the  *)
(* selected task, and is answered with the reply that the report was      *)
(* kept.                                                                  *)
C7_InsertFails ==
    \A u \in UserIds :
        InSubmissionStep(u)
        => /\ edit_conv[u] = END
              => KeptForRetry(u, TextDispatch(u, TXT_REPORT, TRUE).w)
           /\ \A k \in MediaKinds, dl \in BOOLEAN :
                 KeptForRetry(u, handle_media_message(
                                    [World(u) EXCEPT !.submit_fails = TRUE], u,
                                    MediaMsg(k, dl)))

C7_Witness ==
    \E u \in UserIds :
        /\ reply = Reply(u, "handle_task_submission_content",
                         "submission_error_saved", <<>>)
        /\ InSubmissionStep(u)
        /\ submissions = <<>>

(* What the specification says of the evaluator *)
OnTime(deadline, instant) == deadline = NoDeadline \/ instant <= deadline

(* C8: for every task and every instant the evaluator answers true iff    *)
(* the task has no deadline or the instant is not after the deadline, and *)
(* every submission is inserted with the answer for its task at its own   *)
(* instant.                                                               *)
C8_DeadlineEvaluator ==
    /\ [](\A tid \in DOMAIN tasks, t \in 0..(MaxTime + 1) :
             CheckSubmissionDeadline(tasks, tid, t) = OnTime(tasks[tid].deadline, t))
    /\ [][\A i \in DOMAIN submissions' \ DOMAIN submissions :
            LET row == submissions'[i] IN
            row.task_id \in DOMAIN tasks
            => /\ row.submission_date = now
               /\ row.is_on_time = OnTime(tasks[row.task_id].deadline, now)]_vars

(* C8 witness: a submission made at the very instant of the deadline, on  *)
(* time                                                                   *)
C8_Witness ==
    \E i \in DOMAIN submissions :
        /\ submissions[i].task_id \in DOMAIN tasks
        /\ submissions[i].submission_date = tasks[submissions[i].task_id].deadline
        /\ submissions[i].is_on_time

(* C9: no step changes the on-time flag of a submission that exists       *)
(* before and after it.                                                   *)
C9_OnTimeImmutable ==
    [][\A i \in DOMAIN submissions \cap DOMAIN submissions' :
          submissions'[i].is_on_time = submissions[i].is_on_time]_vars

(* C9 witness: a late submission, approved, whose task has lost its       *)
(* deadline since                                                         *)
C9_Witness ==
    \E i \in DOMAIN submissions :
        /\ ~submissions[i].is_on_time
        /\ submissions[i].status = "approved"
        /\ submissions[i].task_id \in DOMAIN tasks
        /\ tasks[submissions[i].task_id].deadline = NoDeadline

(* C10: a confirmed deletion of task T by an admin removes T and the      *)
(* submissions of T and nothing else of the two tables; a deletion that   *)
(* fails, and one by somebody who is no admin, removes nothing; and in    *)
(* all cases the users, the persisted states and the inbox stay as they   *)
(* are.                                                                   *)
C10_CascadingDelete ==
    [][\A a \in AdminActors, T \in 1..MaxTasks, f \in BOOLEAN :
        ConfirmDeleteTask(a, T, f)
        => /\ (_is_admin(a) /\ ~f)
              => /\ DOMAIN tasks' = DOMAIN tasks \ {T}
                 /\ \A i \in DOMAIN tasks' : tasks'[i] = tasks[i]
                 /\ DOMAIN submissions'
                       = {i \in DOMAIN submissions : submissions[i].task_id # T}
                 /\ \A i \in DOMAIN submissions' : submissions'[i] = submissions[i]
           /\ (~_is_admin(a) \/ f) => UNCHANGED <<tasks, submissions>>
           /\ UNCHANGED <<users, user_states, offline_messages>>]_vars

(* C10 witness: of two submissions the one of the other task is left     *)
(* after the deletion of the first task                                  *)
C10_Witness ==
    /\ 1 \notin DOMAIN tasks
    /\ 2 \in DOMAIN tasks
    /\ seq.sub = 3
    /\ \E i \in DOMAIN submissions :
          DOMAIN submissions = {i} /\ submissions[i].task_id = 2
    /\ reply.kind = "task_deleted"

(* C11: in every reachable state every submission refers to a task that   *)
(* exists.                                                                *)
C11_NoOrphanSubmissions ==
    \A i \in DOMAIN submissions : submissions[i].task_id \in DOMAIN tasks

(* The rows the inbox of w holds more than the inbox of the state, and     *)
(* those of them left unprocessed                                         *)
NewRows(w) == DOMAIN w.inbox.rows \ DOMAIN offline_messages

Unprocessed(w) == {i \in NewRows(w) : ~w.inbox.rows[i].processed}

(* A text of a registered user that no conversation takes and that is no  *)
(* label of the menu, while the inbox takes the rows of the handler       *)
TriageCase(u, t) ==
    /\ IsUserRegistered(users, u)
    /\ reg_conv[u] = END
    /\ edit_conv[u] = END
    /\ Persisted(u).state = IDLE
    /\ t \in TriageTexts
    /\ seq.msg + 2 <= MaxMsgs

FiledAsNoise(u, w) ==
    /\ \E i \in NewRows(w) :
          /\ Unprocessed(w) = {i}
          /\ w.inbox.rows[i].message_type = "text_unknown"
          /\ w.inbox.rows[i].user_id = u
    /\ w.reply = Reply(u, "handle_message", "unknown_command", <<>>)

FiledAsPotentialReport(u, t, w) ==
    /\ \E i \in Unprocessed(w) :
          /\ w.inbox.rows[i].message_type = "potential_report"
          /\ w.inbox.rows[i].user_id = u
          /\ w.inbox.rows[i].message_data.content = t
          /\ \A j \in Unprocessed(w) :
                w.inbox.rows[j].message_type = "potential_report" => j = i
    /\ w.reply = Reply(u, "handle_message", "not_accepted", <<>>)

(* C12 as stated: a text shorter than ten characters is filed as noise    *)
(* only, a text of ten characters or more as a potential report.          *)
C12_TriageThreshold ==
    \A u \in UserIds, t \in TriageTexts :
        TriageCase(u, t)
        => LET w == TextDispatch(u, t, FALSE).w IN
           /\ w.submissions = submissions
           /\ IF Len(t) < 10 THEN FiledAsNoise(u, w)
              ELSE FiledAsPotentialReport(u, t, w)

(* C12 amended: a text of at most ten characters is filed as noise only,  *)
(* a text of more than ten characters as a potential report.              *)
C12_TriageAboveTen ==
    \A u \in UserIds, t \in TriageTexts :
        TriageCase(u, t)
        => LET w == TextDispatch(u, t, FALSE).w IN
           /\ w.submissions = submissions
           /\ IF Len(t) <= 10 THEN FiledAsNoise(u, w)
              ELSE FiledAsPotentialReport(u, t, w)

(* C12 witness: a text of eleven characters was filed as a potential      *)
(* report and answered with the warning                                   *)
C12_Witness ==
    \E u \in UserIds, i \in DOMAIN offline_messages :
        /\ reply = Reply(u, "handle_message", "not_accepted", <<>>)
        /\ offline_messages[i].message_type = "potential_report"
        /\ ~offline_messages[i].processed
        /\ offline_messages[i].message_data.content = TXT_REPORT
        /\ Len(TXT_REPORT) = 11

(* C13: in every reachable state a photo, a video or a document of a       *)
(* registered user whose persisted step is not TASK_SUBMISSION adds one    *)
(* row to the inbox, an unprocessed potential report of the user and of    *)
(* that kind, with the path of the file or none when the download failed,  *)
(* and adds no submission.                                                 *)
C13_AttachmentFiled ==
    \A u \in UserIds, k \in MediaKinds, dl \in BOOLEAN :
        (/\ IsUserRegistered(users, u)
         /\ Persisted(u).state # TASK_SUBMISSION
         /\ seq.msg <= MaxMsgs)
        => LET w == handle_media_message(World(u), u, MediaMsg(k, dl))
               row == w.inbox.rows[seq.msg]
           IN /\ NewRows(w) = {seq.msg}
              /\ row.message_type = "potential_report"
              /\ row.user_id = u
              /\ ~row.processed
              /\ row.message_data.type = k
              /\ row.message_data.file_path
                    = (IF dl THEN FilePath(k) ELSE NoneVal)
              /\ \A i \in DOMAIN offline_messages :
                    w.inbox.rows[i] = offline_messages[i]
              /\ w.submissions = submissions
              /\ w.next_sub = seq.sub
              /\ w.user_states = user_states
              /\ w.reply = Reply(u, "handle_media_message", "media_received", <<k>>)

(* C13 witness: a video whose download failed was filed as a potential    *)
(* report while no submission exists                                      *)
C13_Witness ==
    \E u \in UserIds, i \in DOMAIN offline_messages :
        /\ reply = Reply(u, "handle_media_message", "media_received", <<"video">>)
        /\ offline_messages[i].message_type = "potential_report"
        /\ ~offline_messages[i].processed
        /\ offline_messages[i].message_data.type = "video"
        /\ offline_messages[i].message_data.file_path = NoneVal
        /\ Persisted(u).state # TASK_SUBMISSION
        /\ submissions = <<>>

(* C14: in every reachable state a text, a photo, a video or a document   *)
(* of a user who is not registered and in no conversation adds a row of   *)
(* the user to the inbox, leaves the persisted states as they are and is  *)
(* answered with the prompt to register.                                  *)
C14_UnregisteredInputFiled ==
    \A u \in UserIds :
        (/\ ~IsUserRegistered(users, u)
         /\ reg_conv[u] = END
         /\ edit_conv[u] = END
         /\ seq.msg <= MaxMsgs)
        => /\ \A t \in TriageTexts :
                 LET w == TextDispatch(u, t, FALSE).w IN
                 /\ \E i \in NewRows(w) : w.inbox.rows[i].user_id = u
                 /\ w.user_states = user_states
                 /\ w.reply.to = u
                 /\ w.reply.kind = "register_first"
           /\ \A k \in MediaKinds, dl \in BOOLEAN :
                 LET w == handle_media_message(World(u), u, MediaMsg(k, dl)) IN
                 /\ \E i \in NewRows(w) : w.inbox.rows[i].user_id = u
                 /\ w.user_states = user_states
                 /\ w.reply.to = u
                 /\ w.reply.kind = "register_first"

(* A step of the promotion of entry r to task t by the admin bot *)
Promotes(r, t, o) ==
    \E p \in Panels : AssignPotentialToTask("admin", p, r, t, o)

(* C15: a promotion of entry e to a task T that exists, no statement of    *)
(* which fails, adds one submission, of the user of e and for T, on time   *)
(* as the evaluator says of T's deadline and the instant of the promotion, *)
(* and leaves e processed.                                                 *)
C15_PromotionCorrect ==
    [][\A r \in DOMAIN offline_messages, t \in DOMAIN tasks :
          Promotes(r, t, "ok")
          => /\ DOMAIN submissions' = DOMAIN submissions \cup {seq.sub}
             /\ seq.sub \notin DOMAIN submissions
             /\ submissions'[seq.sub].user_id = offline_messages[r].user_id
             /\ submissions'[seq.sub].task_id = t
             /\ submissions'[seq.sub].is_on_time
                   = CheckSubmissionDeadline(tasks, t, now)
             /\ offline_messages'[r].processed]_vars

(* C16: a promotion of an entry that is processed already adds no         *)
(* submission.                                                            *)
C16_PromotionNotRepeatable ==
    [][\A r \in DOMAIN offline_messages, t \in 1..MaxTasks,
         o \in PromotionOutcomes :
          (offline_messages[r].processed /\ Promotes(r, t, o))
          => submissions' = submissions]_vars

(* The promotion of the admin bot to a task that does not exist changes    *)
(* none of the two tables and answers that the task was not found.         *)
C17_AdminBotChecksTask ==
    [][\A r \in DOMAIN offline_messages, t \in 1..MaxTasks \ DOMAIN tasks,
         o \in PromotionOutcomes :
          Promotes(r, t, o)
          => /\ submissions' = submissions
             /\ offline_messages' = offline_messages
             /\ reply'.kind = "task_not_found"]_vars

(* C17: a promotion of a potential report to a task that does not exist    *)
(* adds no submission, leaves the processed flag of the entry and reports  *)
(* the failure: the store returns false, the admin bot answers that the    *)
(* task was not found.                                                     *)
C17_PromotionToMissingTask ==
    /\ [](\A r \in GetPotentialReports(offline_messages),
            t \in 1..MaxTasks \ DOMAIN tasks :
             LET done == MarkPotentialReportAsSubmission(offline_messages,
                             submissions, seq.sub, tasks, now, r, t)
             IN /\ done.submissions = submissions
                /\ done.rows = offline_messages
                /\ ~done.ret)
    /\ C17_AdminBotChecksTask

(* C18: a step of a promotion adds a submission only together with the    *)
(* processed flag of its entry.                                           *)
C18_PromotionAtomic ==
    [][\A r \in DOMAIN offline_messages, t \in 1..MaxTasks,
         o \in PromotionOutcomes :
          (Promotes(r, t, o) /\ submissions' # submissions)
          => offline_messages'[r].processed]_vars

(* C19: setting the status of a submission to approved, or to rejected,   *)
(* twice gives the table that setting it once gives, and a step that      *)
(* approves an approved submission, or rejects a rejected one, changes    *)
(* nothing in the store.                                                  *)
C19_ModerationIdempotent ==
    /\ [](\A i \in DOMAIN submissions, st \in {"approved", "rejected"} :
             SetStatus(SetStatus(submissions, i, st), i, st)
                = SetStatus(submissions, i, st))
    /\ [][\A p \in Panels, i \in DOMAIN submissions :
            (\/ submissions[i].status = "approved" /\ ApproveReport("admin", p, i)
             \/ submissions[i].status = "rejected" /\ RejectReport("admin", p, i))
            => UNCHANGED store]_vars

(* C19 witness: a submission was approved from one message while another  *)
(* message still shows its approve button                                 *)
C19_Witness ==
    \E i \in DOMAIN submissions, p \in Panels :
        /\ submissions[i].status = "approved"
        /\ reply = Reply("admin", "_approve_report", "approved", <<>>)
        /\ <<"approve", i>> \in panels[p]

(* C20: no step changes the status of a submission that is approved or    *)
(* rejected.                                                              *)
C20_StatusOnlyLeavesPending ==
    [][\A i \in DOMAIN submissions \cap DOMAIN submissions' :
          submissions[i].status # "pending"
          => submissions'[i].status = submissions[i].status]_vars

(* What a cancel command leaves: the persisted state of u idle with an     *)
(* empty context, the submissions and the users as they were              *)
Cancelled(u, w) ==
    /\ GetUserState(w.user_states, u) = StateRow(IDLE, EmptyCtx)
    /\ w.submissions = submissions
    /\ w.users = users

(* C21: in every reachable state in which the persisted step of a user is *)
(* not idle, the text of the main menu and the button of the main menu    *)
(* each leave the persisted state idle with an empty context, add no      *)
(* submission and change no row of the users.                             *)
C21_Cancellation ==
    \A u \in UserIds :
        Persisted(u).state # IDLE
        => /\ Cancelled(u, TextDispatch(u, BTN_MAIN_MENU, FALSE).w)
           /\ Cancelled(u, handle_callback(World(u), u, <<"main_menu">>))

(* The same where the code does cancel, for a registered user: the button *)
(* in any step, and the text in the two steps of the profile edit.        *)
C21_CancelWhereHandled ==
    \A u \in UserIds :
        IsUserRegistered(users, u)
        => /\ Persisted(u).state # IDLE
              => Cancelled(u, handle_callback(World(u), u, <<"main_menu">>))
           /\ Persisted(u).state \in {EDIT_FIRST_NAME, EDIT_LAST_NAME}
              => Cancelled(u, TextDispatch(u, BTN_MAIN_MENU, FALSE).w)

(* C22: in every reachable state no two submissions are of the same user  *)
(* and the same task.                                                     *)
C22_OneSubmissionPerUserAndTask ==
    \A i, j \in DOMAIN submissions :
        (/\ submissions[i].user_id = submissions[j].user_id
         /\ submissions[i].task_id = submissions[j].task_id)
        => i = j

(* The users, steps and contexts the writes of C23 are tried with: a user  *)
(* with no row among them                                                 *)
StateUsers == UserIds \cup {"u2"}
StateSteps == {IDLE, REGISTRATION_FIRST_NAME, TASK_SUBMISSION}
StateContexts ==
    {EmptyCtx, ("selected_task_id" :> 1),
     Merge(Marks({"timestamp"}), ("last_name" :> TXT_NAME))}

(* C23: on the table of every reachable state, save_user_state leaves one *)
(* row for the user, which get_user_state reads back as the step and the  *)
(* context written, and leaves the rows of the other users; the same      *)
(* write again, and a second clear_user_state, change nothing; a cleared  *)
(* state and the state of a user with no row read as idle with an empty   *)
(* context.                                                               *)
C23_StateUpserts ==
    \A u \in StateUsers :
        /\ u \notin DOMAIN user_states
           => GetUserState(user_states, u) = StateRow(IDLE, EmptyCtx)
        /\ \A s \in StateSteps, c \in StateContexts :
              LET once == SaveUserState(user_states, u, s, c) IN
              /\ DOMAIN once = DOMAIN user_states \cup {u}
              /\ \A v \in DOMAIN user_states \ {u} : once[v] = user_states[v]
              /\ GetUserState(once, u) = StateRow(s, c)
              /\ SaveUserState(once, u, s, c) = once
              /\ GetUserState(ClearUserState(once, u), u)
                    = StateRow(IDLE, EmptyCtx)
        /\ LET cleared == ClearUserState(user_states, u) IN
           /\ DOMAIN cleared = DOMAIN user_states \cup {u}
           /\ \A v \in DOMAIN user_states \ {u} : cleared[v] = user_states[v]
           /\ GetUserState(cleared, u) = StateRow(IDLE, EmptyCtx)
           /\ ClearUserState(cleared, u) = cleared

(* C23 witness: the row of a user, written by /start and by two steps     *)
(* since, holds the step and the context of the last of them              *)
C23_Witness ==
    \E u \in UserIds :
        /\ u \in DOMAIN user_states
        /\ Persisted(u).state = PARTICIPATION_TYPE
        /\ Has(Persisted(u).context, "first_name")
        /\ Persisted(u).context["first_name"] = TXT_NO
        /\ Persisted(u).context["last_name"] = TXT_NAME
        /\ reply.kind = "ask_participation_type"

(* Labels of the main menu *)
MainMenuCommands == {BTN_SUBMIT, BTN_RESULTS, BTN_SUPPORT}

IdleAfter(u, w) == GetUserState(w.user_states, u) = StateRow(IDLE, EmptyCtx)

(* C24: in every reachable state, /start and every label of the main menu *)
(* sent by a registered user leave the persisted state of the user idle   *)
(* with an empty context.                                                 *)
C24_ResetOnTopLevelCommand ==
    \A u \in UserIds :
        IsUserRegistered(users, u)
        => /\ IdleAfter(u, start(World(u), u, TextMsg(CMD_START)))
           /\ \A t \in MainMenuCommands : IdleAfter(u, TextDispatch(u, t, FALSE).w)

(* The same without the label of the support, which is the one the       *)
(* handler of its own takes                                               *)
C24_ResetExceptSupport ==
    \A u \in UserIds :
        IsUserRegistered(users, u)
        => /\ IdleAfter(u, start(World(u), u, TextMsg(CMD_START)))
           /\ \A t \in MainMenuCommands \ {BTN_SUPPORT} :
                 IdleAfter(u, TextDispatch(u, t, FALSE).w)

(* C30: the button that marks entry e processed sets the processed flag   *)
(* of e and changes nothing else of the store; the button that deletes e  *)
(* removes e, leaves the other entries as they are and leaves every       *)
(* submission as it is.                                                   *)
C30_TerminalDispositions ==
    [][\A p \in Panels, e \in DOMAIN offline_messages :
        /\ MarkPotentialProcessed("admin", p, e)
           => /\ offline_messages'
                    = [offline_messages EXCEPT ![e].processed = TRUE]
              /\ UNCHANGED <<users, user_states, tasks, submissions>>
        /\ DeletePotentialReport("admin", p, e)
           => /\ DOMAIN offline_messages' = DOMAIN offline_messages \ {e}
              /\ \A i \in DOMAIN offline_messages' :
                    offline_messages'[i] = offline_messages[i]
              /\ UNCHANGED <<users, user_states, tasks, submissions>>]_vars

(* What the two buttons do leave alone: the submissions, one promoted     *)
(* from the entry included, the users, the states and the tasks           *)
C30_SubmissionsUntouched ==
    [][\A a \in AdminActors, p \in Panels, e \in 1..MaxMsgs :
        (MarkPotentialProcessed(a, p, e) \/ DeletePotentialReport(a, p, e))
        => UNCHANGED <<users, user_states, tasks, submissions>>]_vars

DurabilityTexts == {TXT_REPORT, TXT_NO, BTN_RESULTS, BTN_SUBMIT, BTN_MAIN_MENU}

ReachesHandleMessage(u, t) ==
    /\ IsUserRegistered(users, u)
    /\ reg_conv[u] \notin RegistrationStates
    /\ edit_conv[u] \notin {EDIT_FIRST_NAME, EDIT_LAST_NAME}
    /\ t \in DurabilityTexts
    /\ seq.msg <= MaxMsgs

(* The record of the text is entry seq.msg: it is processed iff the text  *)
(* was handled without an error, and no other entry changed               *)
RecordFollowsOutcome(u, w) ==
    /\ seq.msg \in DOMAIN w.inbox.rows
    /\ w.inbox.rows[seq.msg].message_type = "text_processing"
    /\ w.inbox.rows[seq.msg].user_id = u
    /\ w.inbox.rows[seq.msg].processed
          = (~w.raised /\ w.reply.kind # "processing_error")
    /\ \A i \in DOMAIN offline_messages : w.inbox.rows[i] = offline_messages[i]
    /\ \A i \in NewRows(w) \ {seq.msg} : ~w.inbox.rows[i].processed

(* C27: in every reachable state, the record handle_message writes for a  *)
(* text of a registered user is processed after the text was handled iff  *)
(* the handling succeeded, whatever the persisted step of the user, and   *)
(* no other entry of the inbox is marked.                                 *)
C27_TransientRecord ==
    \A u \in UserIds, t \in DurabilityTexts :
        ReachesHandleMessage(u, t)
        => RecordFollowsOutcome(u, TextDispatch(u, t, FALSE).w)

(* The same for the texts handle_message handles itself, the persisted    *)
(* step being none of the submission step and the two edit steps          *)
C27_OutsideTheSteps ==
    \A u \in UserIds, t \in DurabilityTexts :
        (/\ ReachesHandleMessage(u, t)
         /\ Persisted(u).state
               \notin {TASK_SUBMISSION, EDIT_FIRST_NAME, EDIT_LAST_NAME})
        => RecordFollowsOutcome(u, TextDispatch(u, t, FALSE).w)

(* C28: in every reachable state in which the persisted step of a user   *)
(* is TASK_SUBMISSION with a selected task, a photo, a video or a         *)
(* document whose download failed, the insert succeeding, creates exactly *)
(* one submission of the user for that task, of that kind, with the       *)
(* identifier of the file and no stored path, and the persisted step is   *)
(* idle afterwards.                                                       *)
C28_FailedDownloadDoesNotBlock ==
    \A u \in UserIds, k \in MediaKinds :
        InSubmissionStep(u)
        => LET w == handle_media_message(World(u), u, MediaMsg(k, FALSE))
               task_id == Merge(Persisted(u).context,
                                user_data[u])["selected_task_id"]
           IN /\ ~w.raised
              /\ DOMAIN w.submissions = DOMAIN submissions \cup {seq.sub}
              /\ \A i \in DOMAIN submissions :
                    w.submissions[i] = submissions[i]
              /\ w.submissions[seq.sub].user_id = u
              /\ w.submissions[seq.sub].task_id = task_id
              /\ w.submissions[seq.sub].submission_type = k
              /\ w.submissions[seq.sub].file_id = FILE_ID
              /\ w.submissions[seq.sub].file_path = NoneVal
              /\ GetUserState(w.user_states, u) = StateRow(IDLE, EmptyCtx)
              /\ w.reply.kind \in {"submitted_on_time", "submitted_late"}

(* C28 witness: a document whose download failed became a submission with *)
(* no stored path, and its sender is idle                                 *)
C28_Witness ==
    \E u \in UserIds, i \in DOMAIN submissions :
        /\ reply.by = "handle_task_submission_content"
        /\ reply.kind \in {"submitted_on_time", "submitted_late"}
        /\ submissions[i].user_id = u
        /\ submissions[i].submission_type = "document"
        /\ submissions[i].file_id = FILE_ID
        /\ submissions[i].file_path = NoneVal
        /\ Persisted(u) = StateRow(IDLE, EmptyCtx)

(* What the specification asks of the allow-list the admin bot serves     *)
(* with: it is there, and it is the word for everyone or every entry of   *)
(* it, the parts between the commas that are not blank, is a numeric id   *)
AllowListAccepted(env) ==
    LET list == AdminIdsEnv(env)
        entries == Split(list)
    IN
    /\ list # <<>>
    /\ \/ Lower(Strip(list)) = ALL
       \/ \A i \in DOMAIN entries :
             Strip(entries[i]) = <<>> \/ IsInt(Strip(entries[i]))

UserBotHandles ==
    \/ <<users, user_states, submissions, offline_messages, seq.sub, seq.msg,
         user_data, reg_conv, edit_conv, buttons>>'
       # <<users, user_states, submissions, offline_messages, seq.sub, seq.msg,
           user_data, reg_conv, edit_conv, buttons>>
    \/ reply' # reply /\ reply'.by = "start"

AdminBotHandles ==
    \/ <<tasks, seq.task, admin_data, panels>>'
       # <<tasks, seq.task, admin_data, panels>>
    \/ reply' # reply /\ reply'.by = "_toggle_task_status"

(* C29: no step in which the user bot handles an update is taken unless   *)
(* BOT_TOKEN is set and not empty, and no step in which the admin bot     *)
(* handles an update, be it only to refuse the sender, is taken unless    *)
(* ADMIN_BOT_TOKEN is set and not empty and the allow-list of ADMIN_IDS   *)
(* (or ADMIN_ID) is there and is the word "all" or has numeric ids for    *)
(* every entry; a process is polling only under the same conditions.      *)
C29_FatalAtStartup ==
    /\ [](process.user = "polling" => ~NoToken(environ, "BOT_TOKEN"))
    /\ [](process.admin = "polling"
            => ~NoToken(environ, "ADMIN_BOT_TOKEN") /\ AllowListAccepted(environ))
    /\ [][UserBotHandles => ~NoToken(environ, "BOT_TOKEN")]_vars
    /\ [][AdminBotHandles
            => /\ ~NoToken(environ, "ADMIN_BOT_TOKEN")
               /\ AllowListAccepted(environ)]_vars

(* C29 witness: the admin bot has exited, its token being set, on a list  *)
(* with an entry that is no id, while the user bot has answered /start    *)
C29_Witness ==
    /\ process.admin = "exited"
    /\ ~NoToken(environ, "ADMIN_BOT_TOKEN")
    /\ "ADMIN_IDS" \in DOMAIN environ
    /\ environ["ADMIN_IDS"] = <<"1", ",", "a">>
    /\ process.user = "polling"
    /\ reply.by = "start"

(* The fields the context of a step has to carry *)
FieldsOf(step) ==
    CASE step = TASK_SUBMISSION -> {"selected_task_id"}
      [] step = REGISTRATION_FIRST_NAME -> {"last_name"}
      [] step = PARTICIPATION_TYPE -> {"last_name", "first_name"}
      [] step = FAMILY_MEMBERS_COUNT ->
            {"last_name", "first_name", "participation_type"}
      [] step = CHILDREN_INFO ->
            {"last_name", "first_name", "participation_type",
             "family_members_count"}
      [] OTHER -> {}

ContextFits(row) ==
    /\ FieldsOf(row.state) \subseteq DOMAIN row.context
    /\ row.state \in {FAMILY_MEMBERS_COUNT, CHILDREN_INFO}
          => row.context["participation_type"] = "family"
    /\ row.state = CHILDREN_INFO
          => row.context["family_members_count"] \in 1..10

(* The fields of the registration the persisted context of u holds while  *)
(* u is on a step of the registration                                     *)
Validated(u) ==
    IF Persisted(u).state \in RegistrationStates
    THEN DOMAIN Persisted(u).context
         \cap {"last_name", "first_name", "participation_type",
               "family_members_count"}
    ELSE {}

KeepsValidated(u) ==
    \/ IsUserRegistered(users', u)
    \/ \A k \in Validated(u) :
          /\ k \in DOMAIN GetUserState(user_states', u).context
          /\ GetUserState(user_states', u).context[k] = Persisted(u).context[k]

(* C31: in every reachable state the persisted context of every user      *)
(* carries the fields its persisted step needs, a family for the two      *)
(* family steps and a count in 1..10 for the last, and no step of the     *)
(* program takes a field of the registration out of the persisted context *)
(* of a user who is on a registration step, unless it completes the       *)
(* registration.                                                          *)
C31_StepAndContext ==
    /\ [](\A u \in UserIds : ContextFits(Persisted(u)))
    /\ [][\A u \in UserIds : KeepsValidated(u)]_vars

(* The first half alone: the persisted context fits the persisted step *)
C31_ContextFitsStep == \A u \in UserIds : ContextFits(Persisted(u))

(* The second half for the inputs the registration steps take themselves: *)
(* the conversation of the registration is on a step in memory            *)
C31_StepsKeepValidated ==
    [][\A u \in UserIds :
          reg_conv[u] \in RegistrationStates => KeepsValidated(u)]_vars

(* The fields a registration collects before it can be completed *)
Collected(u) ==
    {"last_name", "first_name", "participation_type"}
        \subseteq DOMAIN Persisted(u).context

(* C32: in every reachable state, the states after the process was killed *)
(* between two writes of a completing step included, no user who is not   *)
(* registered has the idle step persisted with the collected fields of    *)
(* an accepted final input, and /start never answers with the first       *)
(* question of the registration to a user whose persisted context holds   *)
(* the collected fields.                                                  *)
C32_CrashTransparency ==
    /\ [](\A u \in UserIds :
            ~IsUserRegistered(users, u) /\ Collected(u)
            => Persisted(u).state # IDLE)
    /\ [][\A u \in UserIds :
            (/\ ~IsUserRegistered(users, u)
             /\ Collected(u)
             /\ reply' # reply
             /\ reply'.to = u
             /\ reply'.by = "start")
            => reply'.kind # "welcome_ask_last_name"]_vars

(* C33: no step of the user bot, /start included, takes an entry out of   *)
(* the potential reports get_potential_reports lists: every entry that is *)
(* an unprocessed potential report before an update of a user is one      *)
(* after it.                                                              *)
C33_PotentialReportsStayPending ==
    [][\A i \in GetPotentialReports(offline_messages) :
          i \in GetPotentialReports(offline_messages')]_vars

(* The updates of the user bot other than /start: texts, attachments and  *)
(* buttons leave every unprocessed potential report as it is              *)
C33_PendingButForStart ==
    \A u \in UserIds, i \in GetPotentialReports(offline_messages) :
        /\ \A t \in Texts :
              i \in GetPotentialReports(TextDispatch(u, t, FALSE).w.inbox.rows)
        /\ \A k \in MediaKinds, dl \in BOOLEAN :
              i \in GetPotentialReports(
                       handle_media_message(World(u), u, MediaMsg(k, dl)).inbox.rows)
        /\ \A d \in CallbackData :
              i \in GetPotentialReports(handle_callback(World(u), u, d).inbox.rows)

(* The statuses of the submissions that exist stay as they are in a step *)
StatusesKept ==
    \A i \in DOMAIN submissions :
        /\ i \in DOMAIN submissions'
        /\ submissions'[i].status = submissions[i].status

(* C34: unless the allow-list is the word that admits everybody, a step   *)
(* that changes a task, a submission or an inbox entry is no update of the *)
(* admin bot from a user outside the list; with an empty allow-list nobody *)
(* is treated as an admin; and a step that changes the status of a         *)
(* submission that exists is an update of the admin bot, none of the user  *)
(* bot.                                                                    *)
C34_OnlyAdminsModerate ==
    /\ []((~admin_ids.all /\ admin_ids.ids = <<>>)
            => \A a \in AdminActors : ~_is_admin(a))
    /\ [][\A a \in AdminActors :
             (/\ ~admin_ids.all
              /\ \A i \in DOMAIN admin_ids.ids :
                     admin_ids.ids[i] # TelegramId(a)
              /\ ~UNCHANGED <<tasks, submissions, offline_messages>>)
             => ~AdminUpdate(a)]_vars
    /\ [][~StatusesKept => \E a \in AdminActors : AdminUpdate(a)]_vars

(* C34 witness: somebody outside the allow-list pressed the approve button *)
(* of a pending submission and was refused                                 *)
C34_Witness ==
    /\ ~admin_ids.all
    /\ reply.kind = "access_denied"
    /\ reply.by = "_approve_report"
    /\ \E p \in Panels, i \in DOMAIN submissions :
          /\ submissions[i].status = "pending"
          /\ <<"approve", i>> \in panels[p]

(* A step took the error branch of the submission step: a submission_error *)
(* record was filed                                                        *)
ErrorBranchTaken ==
    \E i \in DOMAIN offline_messages' \ DOMAIN offline_messages :
        offline_messages'[i].message_type = "submission_error"

(* C35: when the submission step takes its error branch, no submission    *)
(* was inserted for that message; and when a submission was inserted, the *)
(* persisted state of its user is idle after the step.                    *)
C35_ErrorMeansNothingStored ==
    [][/\ ErrorBranchTaken => submissions' = submissions
       /\ \A i \in DOMAIN submissions' \ DOMAIN submissions :
             GetUserState(user_states', submissions'[i].user_id).state = IDLE]_vars

(* C35, when only submit_task itself fails: the two halves hold *)
C35_WhenOnlyTheInsertFails ==
    \A u \in UserIds, k \in MediaKinds, f \in BOOLEAN :
        LET w == handle_media_message([World(u) EXCEPT !.submit_fails = f], u,
                                      MediaMsg(k, TRUE))
        IN GetUserState(user_states, u).state = TASK_SUBMISSION
           => /\ w.reply.kind = "submission_error_saved"
                 => w.submissions = submissions
              /\ w.submissions # submissions
                 => GetUserState(w.user_states, u).state = IDLE

(* The names of u in the row of the users table *)
NamesOf(us, u) == {us[u].first_name, us[u].last_name}

(* C36: in every reachable state, a text that is the label of a section   *)
(* of the main menu creates no submission when the persisted step of its  *)
(* user is TASK_SUBMISSION, and is not stored as a name of the user when   *)
(* the persisted step is EDIT_FIRST_NAME or EDIT_LAST_NAME.               *)
C36_MenuLabelsNotConsumed ==
    \A u \in UserIds, t \in SectionLabels :
        LET w == TextDispatch(u, t, FALSE).w IN
        /\ Persisted(u).state = TASK_SUBMISSION => w.submissions = submissions
        /\ Persisted(u).state \in {EDIT_FIRST_NAME, EDIT_LAST_NAME}
              => t \notin NamesOf(w.users, u)

(* The one label the edit steps do test for, the main menu itself, is not *)
(* stored as a name                                                       *)
C36_MainMenuIsNoName ==
    \A u \in UserIds :
        Persisted(u).state \in {EDIT_FIRST_NAME, EDIT_LAST_NAME}
        => BTN_MAIN_MENU \notin NamesOf(TextDispatch(u, BTN_MAIN_MENU, FALSE).w.users, u)

(* The submissions a step inserts *)
Inserted == DOMAIN submissions' \ DOMAIN submissions

(* C37: in every reachable state, no text of a registered user whose      *)
(* persisted step is idle creates a submission; and every step that        *)
(* inserts a submission is the submission step of its user, taken while    *)
(* TASK_SUBMISSION is persisted for that user, or the promotion of an      *)
(* inbox entry of that user.                                               *)
C37_OnlyStepOrPromotion ==
    /\ [](\A u \in UserIds, t \in Texts :
            (IsUserRegistered(users, u) /\ Persisted(u).state = IDLE)
            => TextDispatch(u, t, FALSE).w.submissions = submissions)
    /\ [][\A i \in Inserted :
             \/ /\ Persisted(submissions'[i].user_id).state = TASK_SUBMISSION
                /\ reply'.by = "handle_task_submission_content"
                /\ reply'.to = submissions'[i].user_id
             \/ /\ reply'.by = "_assign_potential_to_task"
                /\ \E r \in DOMAIN offline_messages :
                      /\ offline_messages[r].user_id = submissions'[i].user_id
                      /\ offline_messages'[r].processed]_vars

(* C37 witness: a long text of an idle registered user was filed as a     *)
(* potential report and promoted, and that is the only submission         *)
C37_Witness ==
    \E u \in UserIds, r \in DOMAIN offline_messages :
        /\ Persisted(u).state = IDLE
        /\ offline_messages[r].message_type = "potential_report"
        /\ offline_messages[r].user_id = u
        /\ offline_messages[r].message_data["content"] = TXT_REPORT
        /\ offline_messages[r].processed
        /\ reply.by = "_assign_potential_to_task"
        /\ reply.kind = "assigned"
        /\ \E i \in DOMAIN submissions :
              /\ DOMAIN submissions = {i}
              /\ submissions[i].content = TXT_REPORT

(* The submission row has the kind, the content and the two attachment    *)
(* references of the payload of an inbox entry                            *)
SamePayload(row, data) ==
    /\ row.submission_type = Get(data, "type", "text")
    /\ row.content = Get(data, "content", NoneVal)
    /\ row.file_id = Get(data, "file_id", NoneVal)
    /\ row.file_path = Get(data, "file_path", NoneVal)

(* C38: the submission that the promotion of a potential report creates   *)
(* has the kind, the content, the file id and the file path of the        *)
(* payload of the report.                                                 *)
C38_PromotionPreservesPayload ==
    [][\A r \in GetPotentialReports(offline_messages), t \in DOMAIN tasks :
          Promotes(r, t, "ok")
          => SamePayload(submissions'[seq.sub], offline_messages[r].message_data)]_vars

(* What the promotion of the admin bot does keep: the content and the     *)
(* file id                                                                *)
C38_ContentAndFileIdKept ==
    [][\A r \in GetPotentialReports(offline_messages), t \in DOMAIN tasks :
          Promotes(r, t, "ok")
          => /\ submissions'[seq.sub].content
                   = offline_messages[r].message_data["content"]
             /\ submissions'[seq.sub].file_id
                   = Get(offline_messages[r].message_data, "file_id", NoneVal)]_vars

(* The promotion of the store, which the admin bot does not call, keeps   *)
(* the whole payload                                                      *)
C38_StorePromotionKeepsPayload ==
    \A r \in GetPotentialReports(offline_messages), t \in DOMAIN tasks :
        LET done == MarkPotentialReportAsSubmission(offline_messages, submissions,
                        seq.sub, tasks, now, r, t)
        IN /\ done.ret
           /\ SamePayload(done.submissions[seq.sub],
                          offline_messages[r].message_data)

(* The columns of a users row that the registration and the profile fill *)
Declared(row) ==
    <<row.first_name, row.last_name, row.participation_type,
      row.family_members_count, row.children_info, row.registration_completed>>

(* C39: no step deletes a row of the users table or takes back the        *)
(* registration flag of a user; and in every reachable state add_user of  *)
(* a user who exists sets the username and the two names of the account   *)
(* and leaves the declared names, the participation data and the          *)
(* registration flag of the row, and the other rows, as they are.         *)
C39_RegistrationMonotonic ==
    /\ [][\A u \in DOMAIN users :
             /\ u \in DOMAIN users'
             /\ users[u].registration_completed
                   => users'[u].registration_completed]_vars
    /\ [](\A u \in DOMAIN users, from_user \in {Account, RenamedAccount} :
            LET us == AddUser(users, u, from_user) IN
            /\ DOMAIN us = DOMAIN users
            /\ \A v \in DOMAIN users : Declared(us[v]) = Declared(users[v])
            /\ \A v \in DOMAIN users \ {u} : us[v] = users[v]
            /\ us[u].username = from_user.username
            /\ us[u].telegram_first_name = from_user.first_name
            /\ us[u].telegram_last_name = from_user.last_name)

(* C39 witness: a registered user has sent /start from the renamed        *)
(* account                                                                *)
C39_Witness ==
    \E u \in DOMAIN users :
        /\ users[u].registration_completed
        /\ users[u].first_name = TXT_NAME
        /\ users[u].username = RenamedAccount.username
        /\ reply.by = "start"

====
